---------------------------- MODULE Spec2Model ----------------------------
(***************************************************************************)
(* Model of the fountain-pen-ink server (src/src/index.ts) and of its      *)
(* colour engine (src/src/utils.ts).                                       *)
(*                                                                         *)
(* Conventions                                                             *)
(*  - a JavaScript string is a sequence of one-character strings, so that  *)
(*    prefixes, lengths, trimming and splitting are computed, not assumed; *)
(*  - a function that can throw returns either Ok(v) or Throw(message);    *)
(*  - a colour distance is carried as its square d2 (an integer): the code *)
(*    computes Math.sqrt(d2), sqrt is strictly increasing on the integers  *)
(*    0..3*255^2 also in double precision, so ordering and equality of     *)
(*    distances are those of d2;                                           *)
(*  - a non-integer number (a hue, a saturation, a lightness) is an exact  *)
(*    rational <<numerator, denominator>>.                                 *)
(***************************************************************************)
EXTENDS Integers, Sequences, FiniteSets, TLC

VARIABLES
    inkColors,      \* InkMCPServer.inkColors: the catalog, in load order
    inkSearchData,  \* InkMCPServer.inkSearchData: the metadata collection
    fuse,           \* InkMCPServer.fuse: the text index, NoFuse until built
    process,        \* the position of the server process, the two data
                    \* files it is started with, and what it has logged
    request,        \* the call in flight (a tool call or a function call)
    response        \* NoResponse until the call has been answered

vars == <<inkColors, inkSearchData, fuse, process, request, response>>

(***************************************************************************)
(* Results of calls.                                                       *)
(***************************************************************************)
NoResponse == [pending |-> TRUE]

\* no request received yet
NoRequest == [op |-> "none"]
Ok(v) == [ok |-> TRUE, val |-> v]
Throw(e) == [ok |-> FALSE, err |-> e]

(***************************************************************************)
(* The server process.                                                     *)
(***************************************************************************)
\* the field `fuse` before new Fuse(...) has been assigned to it
NoFuse == [undefined |-> TRUE]

\* new Fuse(collection, options): the index is built over the collection
FuseOver(collection) == [collection |-> collection]

\* the stored form of a catalog entry: the channels in the order B, G, R
StoredInk(ink) ==
    [fullname |-> ink.fullname, ink_id |-> ink.ink_id,
     rgb |-> <<ink.rgb[3], ink.rgb[2], ink.rgb[1]>>]

\* a process whose transport is connected, started with the files that
\* hold this catalog and this metadata collection
ServingFrom(catalog, metadata) ==
    [pc |-> "connected",
     files |-> [inkColors |->
                    [readable |-> TRUE,
                     data |-> [i \in 1..Len(catalog) |-> StoredInk(catalog[i])]],
                search |-> [readable |-> TRUE, data |-> metadata]],
     log |-> <<"Loaded">>]

\* an Error object: its message is the text `message`, followed by `arg`
\* (the offending input, where the message quotes it) and by `list` (the
\* enumeration of valid options, where the message lists them)
JsError(name, message, arg, list) ==
    [name |-> name, message |-> message, arg |-> arg, list |-> list]

(***************************************************************************)
(* Strings.                                                                *)
(***************************************************************************)
LowerHex == <<"0","1","2","3","4","5","6","7","8","9","a","b","c","d","e","f">>
UpperHex == <<"0","1","2","3","4","5","6","7","8","9","A","B","C","D","E","F">>

HexDigitChars == {LowerHex[i] : i \in 1..16} \cup {UpperHex[i] : i \in 1..16}

HexDigitValue(c) == (CHOOSE i \in 1..16 : c = LowerHex[i] \/ c = UpperHex[i]) - 1

\* StrWhiteSpaceChar of ECMAScript, as far as the inputs use it
IsWhiteSpace(c) == c \in {" ", "\t", "\n"}

RECURSIVE TrimStart(_)
TrimStart(s) ==
    IF s # <<>> /\ IsWhiteSpace(Head(s)) THEN TrimStart(Tail(s)) ELSE s

RECURSIVE TrimEnd(_)
TrimEnd(s) ==
    IF s # <<>> /\ IsWhiteSpace(s[Len(s)])
    THEN TrimEnd(SubSeq(s, 1, Len(s) - 1))
    ELSE s

\* String.prototype.trim
Trim(s) == TrimEnd(TrimStart(s))

\* value of the longest prefix of hexadecimal digits of s, continuing from acc
RECURSIVE HexPrefixValue(_, _)
HexPrefixValue(s, acc) ==
    IF s # <<>> /\ Head(s) \in HexDigitChars
    THEN HexPrefixValue(Tail(s), acc * 16 + HexDigitValue(Head(s)))
    ELSE acc

\* parseInt(s, 16): leading white space skipped, an optional sign, an optional
\* 0x / 0X, then the longest run of hexadecimal digits; NaN when that run is
\* empty.  The result is [nan |-> BOOLEAN, v |-> Int].
StripSign(t) == IF t # <<>> /\ Head(t) \in {"+", "-"} THEN Tail(t) ELSE t

\* an optional 0x or 0X
StripRadixPrefix(u) ==
    IF Len(u) >= 2 /\ u[1] = "0" /\ u[2] \in {"x", "X"}
    THEN SubSeq(u, 3, Len(u))
    ELSE u

ParseDigits(negative, w) ==
    IF w = <<>> \/ Head(w) \notin HexDigitChars
    THEN [nan |-> TRUE, v |-> 0]
    ELSE [nan |-> FALSE,
          v |-> IF negative THEN 0 - HexPrefixValue(w, 0) ELSE HexPrefixValue(w, 0)]

ParseSigned(t) ==
    ParseDigits(t # <<>> /\ Head(t) = "-", StripRadixPrefix(StripSign(t)))

parseInt16(s) == ParseSigned(TrimStart(s))

\* ToInt32 of a parseInt result: NaN becomes 0; the values met here are below
\* 2^24 in magnitude, so no wrap-around occurs
ToInt32(n) == IF n.nan THEN 0 ELSE n.v

\* (x >> k) & 255 on a 32-bit integer: the shift is arithmetic (floor division)
ShiftAnd255(x, k) == (x \div (2 ^ k)) % 256

\* hex.replace(/^#/, ''): at most one leading '#' is removed
StripHash(hex) == IF hex # <<>> /\ Head(hex) = "#" THEN Tail(hex) ELSE hex

\* the three channels of the parsed integer
HexChannels(bigint) ==
    <<ShiftAnd255(bigint, 16), ShiftAnd255(bigint, 8), ShiftAnd255(bigint, 0)>>

\* only the length of the cleaned string is validated
ParseCleanHex(cleanHex) ==
    IF Len(cleanHex) # 6
    THEN Throw(JsError("Error", "Invalid hex color string", <<>>, <<>>))
    ELSE Ok(HexChannels(ToInt32(parseInt16(cleanHex))))

hexToRgb(hex) == ParseCleanHex(StripHash(hex))

(***************************************************************************)
(* Numbers.  A JavaScript number that reaches a limit or a size parameter  *)
(* is an integer, NaN, +Infinity, -Infinity or (a missing argument)        *)
(* undefined; fractional limits are not modelled.                          *)
(***************************************************************************)
Num(n) == [k |-> "int", v |-> n]
NaN == [k |-> "nan", v |-> 0]
Infinity == [k |-> "inf", v |-> 1]
NegInfinity == [k |-> "inf", v |-> -1]
UndefinedNum == [k |-> "undefined", v |-> 0]

\* ToBoolean of a number or undefined
NumTruthy(x) == (x.k = "int" /\ x.v # 0) \/ x.k = "inf"

\* x || dflt
NumOr(x, dflt) == IF NumTruthy(x) THEN x ELSE Num(dflt)

\* x * 2
NumTimes2(x) == IF x.k = "int" THEN Num(2 * x.v) ELSE x

\* Math.min(x, y); an undefined operand converts to NaN
MathMin(x, y) ==
    IF x.k \in {"nan", "undefined"} \/ y.k \in {"nan", "undefined"} THEN NaN
    ELSE IF x = NegInfinity \/ y = NegInfinity THEN NegInfinity
    ELSE IF x = Infinity THEN y
    ELSE IF y = Infinity THEN x
    ELSE IF x.v <= y.v THEN x ELSE y

\* i < x for an integer i
IntLessThan(i, x) ==
    CASE x.k = "int" -> i < x.v
      [] x.k = "inf" -> x.v > 0
      [] OTHER -> FALSE

\* Array.prototype.slice(0, end) on the sequence s
SliceTo(s, end) ==
    LET n == Len(s)
        final == CASE end.k = "undefined" -> n
                   [] end.k = "nan" -> 0
                   [] end.k = "inf" -> IF end.v > 0 THEN n ELSE 0
                   [] OTHER -> IF end.v < 0
                               THEN (IF n + end.v < 0 THEN 0 ELSE n + end.v)
                               ELSE (IF end.v > n THEN n ELSE end.v)
    IN  SubSeq(s, 1, final)

(***************************************************************************)
(* Exact rationals <<numerator, denominator>>, denominator > 0, reduced.   *)
(* The code computes in double precision; the model computes the exact     *)
(* value of the same expressions.                                          *)
(***************************************************************************)
Abs(x) == IF x < 0 THEN 0 - x ELSE x

RECURSIVE Gcd(_, _)
Gcd(a, b) == IF b = 0 THEN a ELSE Gcd(b, a % b)

\* n / d with both divided by g, the sign carried by the numerator
Reduced(n, d, g) ==
    IF d < 0 THEN <<(0 - n) \div g, (0 - d) \div g>> ELSE <<n \div g, d \div g>>

Rat(n, d) == Reduced(n, d, Gcd(Abs(n), Abs(d)))

RInt(n) == <<n, 1>>

\* a + b over the common denominator l
RAddOver(a, b, l) == Rat(a[1] * (l \div a[2]) + b[1] * (l \div b[2]), l)

RAdd(a, b) == RAddOver(a, b, (a[2] \div Gcd(a[2], b[2])) * b[2])

RNeg(a) == <<0 - a[1], a[2]>>

RSub(a, b) == RAdd(a, RNeg(b))

\* a * b after cancelling g1 and g2 across the fractions
RMulBy(a, b, g1, g2) ==
    Rat((a[1] \div g1) * (b[1] \div g2), (a[2] \div g2) * (b[2] \div g1))

RMul(a, b) == RMulBy(a, b, Gcd(Abs(a[1]), b[2]), Gcd(Abs(b[1]), a[2]))

RDiv(a, b) == RMul(a, Rat(b[2], b[1]))

\* a < b: by the integer parts, and by the fractional parts when those are
\* equal, so that no product leaves the integers the checker computes with
RLt(a, b) ==
    IF a[1] \div a[2] # b[1] \div b[2]
    THEN a[1] \div a[2] < b[1] \div b[2]
    ELSE (a[1] % a[2]) * b[2] < (b[1] % b[2]) * a[2]

RMax(a, b) == IF RLt(a, b) THEN b ELSE a

RMin(a, b) == IF RLt(b, a) THEN b ELSE a

\* Math.round: the nearest integer, a tie going up
MathRound(a) == (2 * a[1] + a[2]) \div (2 * a[2])

\* the JavaScript remainder a % m for m > 0: the result has the sign of a
Truncated(q) ==
    IF q[1] >= 0 THEN q[1] \div q[2] ELSE 0 - ((0 - q[1]) \div q[2])

RMod(a, m) == RSub(a, RMul(m, RInt(Truncated(RDiv(a, m)))))

(***************************************************************************)
(* Colour-space conversion.                                                *)
(***************************************************************************)
\* l = (max + min) / 2
HslLightness(max, min) == RDiv(RAdd(max, min), RInt(2))

\* s = l > 0.5 ? d / (2 - max - min) : d / (max + min)
HslSaturation(max, min) ==
    IF RLt(Rat(1, 2), HslLightness(max, min))
    THEN RDiv(RSub(max, min), RSub(RSub(RInt(2), max), min))
    ELSE RDiv(RSub(max, min), RAdd(max, min))

\* a variant of the switch on max without the (g < b ? 6 : 0) term
HslHueUnwrapped(r, g, b, max, d) ==
    IF r = max
      THEN RDiv(RSub(g, b), d)
    ELSE IF g = max
      THEN RAdd(RDiv(RSub(b, r), d), RInt(2))
    ELSE RAdd(RDiv(RSub(r, g), d), RInt(4))

\* the switch on max, in sixths of a turn
HslHue(r, g, b, max, d) ==
    IF r = max
      THEN RAdd(RDiv(RSub(g, b), d), IF RLt(g, b) THEN RInt(6) ELSE RInt(0))
    ELSE IF g = max
      THEN RAdd(RDiv(RSub(b, r), d), RInt(2))
    ELSE RAdd(RDiv(RSub(r, g), d), RInt(4))

HslOf(r, g, b, max, min) ==
    IF max = min
    THEN <<RInt(0), RInt(0), HslLightness(max, min)>>
    ELSE <<RMul(RDiv(HslHue(r, g, b, max, RSub(max, min)), RInt(6)), RInt(360)),
           HslSaturation(max, min), HslLightness(max, min)>>

HslOfUnit(r, g, b) == HslOf(r, g, b, RMax(RMax(r, g), b), RMin(RMin(r, g), b))

rgbToHsl(rgb) == HslOfUnit(Rat(rgb[1], 255), Rat(rgb[2], 255), Rat(rgb[3], 255))

\* if (t < 0) t += 1
WrapBelow(t) == IF RLt(t, RInt(0)) THEN RAdd(t, RInt(1)) ELSE t

\* if (t > 1) t -= 1
WrapAbove(t) == IF RLt(RInt(1), t) THEN RSub(t, RInt(1)) ELSE t

\* the four return statements of hue2rgb, t already wrapped
hue2rgbWrapped(p, q, t) ==
    IF RLt(t, Rat(1, 6))
      THEN RAdd(p, RMul(RMul(RSub(q, p), RInt(6)), t))
    ELSE IF RLt(t, Rat(1, 2))
      THEN q
    ELSE IF RLt(t, Rat(2, 3))
      THEN RAdd(p, RMul(RMul(RSub(q, p), RSub(Rat(2, 3), t)), RInt(6)))
    ELSE p

hue2rgb(p, q, t0) == hue2rgbWrapped(p, q, WrapAbove(WrapBelow(t0)))

\* a variant of q that uses the formula for l < 0.5 at every lightness
HslQDarkOnly(s, l) == RMul(l, RAdd(RInt(1), s))

\* q = l < 0.5 ? l * (1 + s) : l + s - l * s
HslQ(s, l) ==
    IF RLt(l, Rat(1, 2))
    THEN RMul(l, RAdd(RInt(1), s))
    ELSE RSub(RAdd(l, s), RMul(l, s))

\* the three channels from p, q and the hue h in turns
HslChannels(h, p, q) ==
    <<MathRound(RMul(hue2rgb(p, q, RAdd(h, Rat(1, 3))), RInt(255))),
      MathRound(RMul(hue2rgb(p, q, h), RInt(255))),
      MathRound(RMul(hue2rgb(p, q, RSub(h, Rat(1, 3))), RInt(255)))>>

\* p = 2 * l - q
HslChromatic(h, l, q) == HslChannels(h, RSub(RMul(RInt(2), l), q), q)

hslToRgb(hsl) ==
    IF hsl[2] = RInt(0)
    THEN <<MathRound(RMul(hsl[3], RInt(255))), MathRound(RMul(hsl[3], RInt(255))),
           MathRound(RMul(hsl[3], RInt(255)))>>
    ELSE HslChromatic(RDiv(hsl[1], RInt(360)), hsl[3], HslQ(hsl[2], hsl[3]))

(***************************************************************************)
(* Harmony generator.                                                      *)
(***************************************************************************)
\* names every plain object inherits from Object.prototype: a lookup
\* obj[key] with such a key yields a (truthy) inherited value
ObjectPrototypeKeys ==
    {"constructor", "__proto__", "hasOwnProperty", "isPrototypeOf",
     "propertyIsEnumerable", "toLocaleString", "toString", "valueOf",
     "__defineGetter__", "__defineSetter__", "__lookupGetter__",
     "__lookupSetter__"}

HarmonyRules == {"complementary", "analogous", "triadic", "split-complementary"}

\* a variant of the table that lists the second and third hue of the
\* three-colour rules the other way round
harmonyHuesReordered(h, harmony) ==
    LET off(k) == RMod(RAdd(h, RInt(k)), RInt(360))
    IN  CASE harmony = "complementary" -> <<h, off(180)>>
          [] harmony = "analogous" -> <<h, off(330), off(30)>>
          [] harmony = "triadic" -> <<h, off(240), off(120)>>
          [] harmony = "split-complementary" -> <<h, off(210), off(150)>>

\* the own entries of the harmonyHues table
harmonyHues(h, harmony) ==
    LET off(k) == RMod(RAdd(h, RInt(k)), RInt(360))
    IN  CASE harmony = "complementary" -> <<h, off(180)>>
          [] harmony = "analogous" -> <<h, off(30), off(330)>>
          [] harmony = "triadic" -> <<h, off(120), off(240)>>
          [] harmony = "split-complementary" -> <<h, off(150), off(210)>>

\* hues.map(hue => [hue, s, l])
WithHues(hues, s, l) == [i \in 1..Len(hues) |-> <<hues[i], s, l>>]

generateHarmonyColors(baseHsl, harmony) ==
    IF harmony \notin HarmonyRules /\ harmony \in ObjectPrototypeKeys
    THEN Throw(JsError("TypeError", "hues.map is not a function", <<>>, <<>>))
    ELSE Ok(WithHues(IF harmony \in HarmonyRules
                     THEN harmonyHues(baseHsl[1], harmony)
                     ELSE <<baseHsl[1]>>,
                     baseHsl[2], baseHsl[3]))

(***************************************************************************)
(* Distance and nearest-neighbour search.                                  *)
(***************************************************************************)
\* the square of the value the code returns (see the conventions above)
calculateColorDistance(rgb1, rgb2) ==
    (rgb1[1] - rgb2[1]) ^ 2 + (rgb1[2] - rgb2[2]) ^ 2 + (rgb1[3] - rgb2[3]) ^ 2

\* { ...ink, distance }
WithDistance(ink, targetRgb) ==
    [fullname |-> ink.fullname, ink_id |-> ink.ink_id, rgb |-> ink.rgb,
     distance |-> calculateColorDistance(targetRgb, ink.rgb)]

\* an unstable variant: x goes before the elements of equal distance
RECURSIVE InsertByDistanceUnstable(_, _)
InsertByDistanceUnstable(sorted, x) ==
    IF sorted = <<>> THEN <<x>>
    ELSE IF x.distance <= Head(sorted).distance THEN <<x>> \o sorted
    ELSE <<Head(sorted)>> \o InsertByDistanceUnstable(Tail(sorted), x)

\* Array.prototype.sort with the comparator a.distance - b.distance is a
\* stable sort: x goes after every element whose distance is not larger
RECURSIVE InsertByDistance(_, _)
InsertByDistance(sorted, x) ==
    IF sorted = <<>> THEN <<x>>
    ELSE IF x.distance < Head(sorted).distance THEN <<x>> \o sorted
    ELSE <<Head(sorted)>> \o InsertByDistance(Tail(sorted), x)

RECURSIVE SortByDistance(_)
SortByDistance(s) ==
    IF s = <<>> THEN <<>>
    ELSE InsertByDistance(SortByDistance(SubSeq(s, 1, Len(s) - 1)), s[Len(s)])

DefaultMaxResults == 20

findClosestInks(targetRgb, inks, maxResults) ==
    LET limit == IF maxResults = UndefinedNum THEN Num(DefaultMaxResults)
                 ELSE maxResults
        distances == [i \in 1..Len(inks) |-> WithDistance(inks[i], targetRgb)]
    IN  SliceTo(SortByDistance(distances), limit)

(***************************************************************************)
(* Classifier.                                                             *)
(***************************************************************************)
Max3(a, b, c) == IF a >= b /\ a >= c THEN a ELSE IF b >= c THEN b ELSE c

Min3(a, b, c) == IF a <= b /\ a <= c THEN a ELSE IF b <= c THEN b ELSE c

\* a variant of the classifier with the gray threshold 30 instead of 22
getColorFamilyOldThreshold(rgb) ==
    LET r == rgb[1]
        g == rgb[2]
        b == rgb[3]
        max == Max3(r, g, b)
        min == Min3(r, g, b)
    IN  IF max - min < 30 THEN "gray"
        ELSE IF r = max /\ r > g + 20 /\ r > b + 20 THEN "red"
        ELSE IF g = max /\ g > r + 20 /\ g > b + 20 THEN "green"
        ELSE IF b = max /\ b > r + 20 /\ b > g + 20 THEN "blue"
        ELSE IF r > 150 /\ g > 150 /\ b < 100 THEN "yellow"
        ELSE IF r > 150 /\ b > 150 /\ g < 100 THEN "magenta"
        ELSE IF g > 150 /\ b > 150 /\ r < 100 THEN "cyan"
        ELSE IF r > g /\ r > b
          THEN (IF g > b + 30 THEN "orange"
                ELSE IF b > g + 30 THEN "purple" ELSE "red")
        ELSE IF g > r /\ g > b
          THEN (IF b > r + 30 THEN "teal"
                ELSE IF r > b + 30 THEN "yellow-green" ELSE "green")
        ELSE IF b > r /\ b > g
          THEN (IF r > g + 30 THEN "purple"
                ELSE IF g > r + 30 THEN "blue-green" ELSE "blue")
        ELSE "mixed"

\* a variant of the classifier whose dominant-channel rules accept a channel
\* that shares the largest value
getColorFamilyTiesToFirst(rgb) ==
    LET r == rgb[1]
        g == rgb[2]
        b == rgb[3]
        max == Max3(r, g, b)
        min == Min3(r, g, b)
    IN  IF max - min < 22 THEN "gray"
        ELSE IF r = max /\ r > g + 20 /\ r > b + 20 THEN "red"
        ELSE IF g = max /\ g > r + 20 /\ g > b + 20 THEN "green"
        ELSE IF b = max /\ b > r + 20 /\ b > g + 20 THEN "blue"
        ELSE IF r > 150 /\ g > 150 /\ b < 100 THEN "yellow"
        ELSE IF r > 150 /\ b > 150 /\ g < 100 THEN "magenta"
        ELSE IF g > 150 /\ b > 150 /\ r < 100 THEN "cyan"
        ELSE IF r >= g /\ r >= b
          THEN (IF g > b + 30 THEN "orange"
                ELSE IF b > g + 30 THEN "purple" ELSE "red")
        ELSE IF g >= r /\ g >= b
          THEN (IF b > r + 30 THEN "teal"
                ELSE IF r > b + 30 THEN "yellow-green" ELSE "green")
        ELSE IF b >= r /\ b >= g
          THEN (IF r > g + 30 THEN "purple"
                ELSE IF g > r + 30 THEN "blue-green" ELSE "blue")
        ELSE "mixed"

\* lines 135-189
getColorFamily(rgb) ==
    LET r == rgb[1]
        g == rgb[2]
        b == rgb[3]
        max == Max3(r, g, b)
        min == Min3(r, g, b)
    IN  IF max - min < 22 THEN "gray"
        ELSE IF r = max /\ r > g + 20 /\ r > b + 20 THEN "red"
        ELSE IF g = max /\ g > r + 20 /\ g > b + 20 THEN "green"
        ELSE IF b = max /\ b > r + 20 /\ b > g + 20 THEN "blue"
        ELSE IF r > 150 /\ g > 150 /\ b < 100 THEN "yellow"
        ELSE IF r > 150 /\ b > 150 /\ g < 100 THEN "magenta"
        ELSE IF g > 150 /\ b > 150 /\ r < 100 THEN "cyan"
        ELSE IF r > g /\ r > b
          THEN (IF g > b + 30 THEN "orange"
                ELSE IF b > g + 30 THEN "purple" ELSE "red")
        ELSE IF g > r /\ g > b
          THEN (IF b > r + 30 THEN "teal"
                ELSE IF r > b + 30 THEN "yellow-green" ELSE "green")
        ELSE IF b > r /\ b > g
          THEN (IF r > g + 30 THEN "purple"
                ELSE IF g > r + 30 THEN "blue-green" ELSE "blue")
        ELSE "mixed"

\* the characters of a family label
FamilyChars(family) ==
    CASE family = "gray" -> <<"g","r","a","y">>
      [] family = "red" -> <<"r","e","d">>
      [] family = "green" -> <<"g","r","e","e","n">>
      [] family = "blue" -> <<"b","l","u","e">>
      [] family = "yellow" -> <<"y","e","l","l","o","w">>
      [] family = "magenta" -> <<"m","a","g","e","n","t","a">>
      [] family = "cyan" -> <<"c","y","a","n">>
      [] family = "orange" -> <<"o","r","a","n","g","e">>
      [] family = "purple" -> <<"p","u","r","p","l","e">>
      [] family = "teal" -> <<"t","e","a","l">>
      [] family = "yellow-green" -> <<"y","e","l","l","o","w","-","g","r","e","e","n">>
      [] family = "blue-green" -> <<"b","l","u","e","-","g","r","e","e","n">>
      [] family = "mixed" -> <<"m","i","x","e","d">>

\* a variant of the brightness prefix that takes the mean as a whole number
BrightnessDescTruncatedMean(sum) ==
    IF sum \div 3 < 85 THEN <<"d","a","r","k"," ">>
    ELSE IF sum \div 3 > 170 THEN <<"l","i","g","h","t"," ">> ELSE <<>>

\* lines 206, 209-211: brightness = (r + g + b) / 3, from the sum r + g + b
BrightnessDesc(sum) ==
    IF RLt(Rat(sum, 3), RInt(85)) THEN <<"d","a","r","k"," ">>
    ELSE IF RLt(RInt(170), Rat(sum, 3)) THEN <<"l","i","g","h","t"," ">> ELSE <<>>

\* lines 213-216
SaturationDesc(saturation) ==
    IF saturation < 30 THEN <<"m","u","t","e","d"," ">>
    ELSE IF saturation > 150 THEN <<"v","i","b","r","a","n","t"," ">> ELSE <<>>

\* line 218: the template string of the three parts, trimmed
getColorDescription(rgb) ==
    Trim(BrightnessDesc(rgb[1] + rgb[2] + rgb[3])
         \o SaturationDesc(Max3(rgb[1], rgb[2], rgb[3]) - Min3(rgb[1], rgb[2], rgb[3]))
         \o FamilyChars(getColorFamily(rgb)))

(***************************************************************************)
(* Colour temperature.  A temperature is a rational number of kelvins.     *)
(***************************************************************************)
\* lo + ((hue - from) / 60) * span
HueRamp(lo, hue, from, span) ==
    RAdd(RInt(lo), RMul(RDiv(RSub(hue, RInt(from)), RInt(60)), RInt(span)))

\* the base temperature of a hue in degrees
BaseTemperature(hue) ==
    IF ~RLt(hue, RInt(0)) /\ RLt(hue, RInt(60)) THEN HueRamp(2800, hue, 0, 800)
    ELSE IF ~RLt(hue, RInt(60)) /\ RLt(hue, RInt(120))
      THEN HueRamp(3600, hue, 60, 1200)
    ELSE IF ~RLt(hue, RInt(120)) /\ RLt(hue, RInt(180))
      THEN HueRamp(4800, hue, 120, 1000)
    ELSE IF ~RLt(hue, RInt(180)) /\ RLt(hue, RInt(240))
      THEN HueRamp(5800, hue, 180, 800)
    ELSE IF ~RLt(hue, RInt(240)) /\ RLt(hue, RInt(300))
      THEN HueRamp(6600, hue, 240, -1600)
    ELSE HueRamp(5000, hue, 300, -1200)

\* saturated colours are pushed away from neutral
SaturationAdjusted(baseTemp, saturationBoost) ==
    IF RLt(baseTemp, RInt(4250))
    THEN RSub(baseTemp, RMul(saturationBoost, RInt(800)))
    ELSE RAdd(baseTemp, RMul(saturationBoost, RInt(1000)))

\* Math.max(2000, Math.min(8000, rounded))
ClampKelvin(rounded) ==
    IF rounded > 8000 THEN 8000 ELSE IF rounded < 2000 THEN 2000 ELSE rounded

\* Math.round(a - b) over the common denominator l, computed from the integer
\* and the fractional parts of a and b
RoundedDifferenceOver(a, b, l) ==
    (a[1] \div a[2]) - (b[1] \div b[2])
      + ((2 * ((a[1] % a[2]) * (l \div a[2]) - (b[1] % b[2]) * (l \div b[2])) + l)
            \div (2 * l))

RoundedDifference(a, b) ==
    RoundedDifferenceOver(a, b, (a[2] \div Gcd(a[2], b[2])) * b[2])

ChromaticTemperature(hsl) ==
    RInt(ClampKelvin(RoundedDifference(
        SaturationAdjusted(BaseTemperature(hsl[1]), RMul(hsl[2], Rat(1, 2))),
        RMul(RSub(Rat(1, 2), hsl[3]), RInt(400)))))

\* a variant whose gray branch scales the brightness by 30 instead of 3
calculateColorTemperatureSteepGray(rgb) ==
    IF Max3(rgb[1], rgb[2], rgb[3]) - Min3(rgb[1], rgb[2], rgb[3]) < 15
    THEN RAdd(RInt(4250),
              RMul(RSub(Rat(rgb[1] + rgb[2] + rgb[3], 3), Rat(255, 2)), RInt(30)))
    ELSE ChromaticTemperature(rgbToHsl(rgb))

calculateColorTemperature(rgb) ==
    IF Max3(rgb[1], rgb[2], rgb[3]) - Min3(rgb[1], rgb[2], rgb[3]) < 15
    THEN RAdd(RInt(4250),
              RMul(RSub(Rat(rgb[1] + rgb[2] + rgb[3], 3), Rat(255, 2)), RInt(3)))
    ELSE ChromaticTemperature(rgbToHsl(rgb))

getTemperatureCategory(tempKelvin) ==
    IF RLt(tempKelvin, RInt(3500)) THEN "warm"
    ELSE IF RLt(RInt(5000), tempKelvin) THEN "cool"
    ELSE "neutral"

getColorFamilyTemperatureDescriptor(colorFamily) ==
    CASE colorFamily = "red" -> "fiery"
      [] colorFamily = "orange" -> "golden"
      [] colorFamily = "yellow" -> "sunny"
      [] colorFamily = "blue" -> "icy"
      [] colorFamily = "purple" -> "cool"
      [] colorFamily = "green" -> "fresh"
      [] colorFamily = "cyan" -> "crisp"
      [] colorFamily = "teal" -> "aquatic"
      [] colorFamily = "magenta" -> "vibrant"
      [] OTHER -> ""

\* very / slightly / nothing, by category and distance from the thresholds
TemperatureIntensityWord(tempKelvin, category) ==
    IF category = "warm"
      THEN (IF RLt(tempKelvin, RInt(2800)) THEN "very "
            ELSE IF RLt(RInt(3300), tempKelvin) THEN "slightly " ELSE "")
    ELSE IF category = "cool"
      THEN (IF RLt(RInt(6500), tempKelvin) THEN "very "
            ELSE IF RLt(tempKelvin, RInt(5500)) THEN "slightly " ELSE "")
    ELSE ""

DescribeTemperature(tempKelvin, colorFamily) ==
    <<TemperatureIntensityWord(tempKelvin, getTemperatureCategory(tempKelvin)),
      getTemperatureCategory(tempKelvin),
      getColorFamilyTemperatureDescriptor(colorFamily), " tone">>

\* the description is the concatenation of intensity, category, the
\* descriptor (preceded by a space when not empty) and " tone"
getTemperatureDescription(rgb) ==
    DescribeTemperature(calculateColorTemperature(rgb), getColorFamily(rgb))

NeutralKelvin == 4250

calculateTemperatureIntensity(tempKelvin) ==
    LET d == RSub(tempKelvin, RInt(NeutralKelvin))
        deviation == IF d[1] < 0 THEN RNeg(d) ELSE d
    IN  RMin(RInt(1), RDiv(deviation, RInt(2250)))

getSeasonalMatches(tempKelvin, colorFamily) ==
    IF RLt(tempKelvin, RInt(3200)) THEN <<"autumn", "winter">>
    ELSE IF RLt(tempKelvin, RInt(3800))
      THEN (IF colorFamily \in {"yellow", "orange"}
            THEN <<"autumn", "summer">> ELSE <<"autumn">>)
    ELSE IF RLt(tempKelvin, RInt(5200)) THEN <<"spring", "summer", "autumn">>
    ELSE IF RLt(tempKelvin, RInt(6000)) THEN <<"spring", "summer">>
    ELSE <<"winter", "spring">>

getComplementaryTemperature(tempKelvin) ==
    LET distance == RSub(tempKelvin, RInt(NeutralKelvin))
    IN  RMax(RInt(2000), RMin(RInt(8000), RSub(RInt(NeutralKelvin), distance)))

TemperatureAnalysisOf(rgb, tempKelvin) ==
    [kelvin |-> tempKelvin,
     category |-> getTemperatureCategory(tempKelvin),
     description |-> getTemperatureDescription(rgb),
     intensity |-> calculateTemperatureIntensity(tempKelvin),
     seasonal_match |-> getSeasonalMatches(tempKelvin, getColorFamily(rgb)),
     complementary_temperature |-> getComplementaryTemperature(tempKelvin)]

TemperatureAnalysis(rgb) == TemperatureAnalysisOf(rgb, calculateColorTemperature(rgb))

(***************************************************************************)
(* The server: lookups and search results.                                 *)
(***************************************************************************)
\* an optional string argument that was not supplied
Undefined == "<undefined>"

\* ToBoolean of an optional string argument
StrTruthy(x) == x # Undefined /\ x # ""

NoMetadata == [undefined |-> TRUE]

\* variant: the last entry with the id, in collection order
getInkMetadataLast(inkId) ==
    IF \E i \in 1..Len(inkSearchData) : inkSearchData[i].ink_id = inkId
    THEN inkSearchData[CHOOSE i \in 1..Len(inkSearchData) :
                          /\ inkSearchData[i].ink_id = inkId
                          /\ \A j \in (i + 1)..Len(inkSearchData) :
                                inkSearchData[j].ink_id # inkId]
    ELSE NoMetadata

\* Array.prototype.find: the first entry with the id, in collection order
getInkMetadata(inkId) ==
    IF \E i \in 1..Len(inkSearchData) : inkSearchData[i].ink_id = inkId
    THEN inkSearchData[CHOOSE i \in 1..Len(inkSearchData) :
                          /\ inkSearchData[i].ink_id = inkId
                          /\ \A j \in 1..(i - 1) : inkSearchData[j].ink_id # inkId]
    ELSE NoMetadata

\* the two URLs are the fixed prefixes followed by the ink id
createSearchResult(ink, metadata, distance) ==
    [ink |-> ink, metadata |-> metadata, distance |-> distance,
     url |-> <<"https://wilderwrites.ink/ink/", ink.ink_id>>,
     image_url |-> <<"https://wilderwrites.ink/images/inks/", ink.ink_id, "-sq.jpg">>]

\* closestInks.map(ink => createSearchResult(ink, getInkMetadata(ink.ink_id), ink.distance))
ToSearchResults(inks) ==
    [i \in 1..Len(inks) |->
        createSearchResult(inks[i], getInkMetadata(inks[i].ink_id), inks[i].distance)]

\* a successful tool result: one text item holding JSON.stringify(json)
ToolResult(json) == [content |-> <<[type |-> "text", text |-> [json |-> json]]>>]

\* the answer to a failed call: one text item, "Error: " followed by the
\* message of the error
ToolError(err) ==
    [content |-> <<[type |-> "text", text |-> [prefix |-> "Error: ", error |-> err]]>>]

InvalidColorFormat(colorHex) ==
    JsError("Error", "Invalid color format: <arg>. Please use hex format like #FF5733",
            colorHex, <<>>)

(***************************************************************************)
(* search_inks_by_color                                                    *)
(***************************************************************************)
\* closestInks.filter(ink => getTemperatureCategory(...) === temperatureFilter)
FilterByTemperature(inks, temperatureFilter) ==
    LET HasCategory(ink) ==
            getTemperatureCategory(calculateColorTemperature(ink.rgb)) = temperatureFilter
    IN  IF StrTruthy(temperatureFilter) THEN SelectSeq(inks, HasCategory) ELSE inks

SearchAnswer(colorHex, targetRgb, temperatureFilter, results) ==
    Ok(ToolResult(
        [target_color |-> colorHex,
         target_rgb |-> targetRgb,
         temperature_filter |-> IF StrTruthy(temperatureFilter)
                                THEN temperatureFilter ELSE "none",
         results_count |-> Len(results),
         results |-> results]))

\* variant: the temperature filter is applied to the whole sorted catalog
SearchNearFiltersAll(colorHex, targetRgb, maxResults, temperatureFilter) ==
    SearchAnswer(colorHex, targetRgb, temperatureFilter,
        ToSearchResults(
            SliceTo(FilterByTemperature(
                        findClosestInks(targetRgb, inkColors, Num(Len(inkColors))),
                        temperatureFilter),
                    maxResults)))

SearchNear(colorHex, targetRgb, maxResults, temperatureFilter) ==
    SearchAnswer(colorHex, targetRgb, temperatureFilter,
        ToSearchResults(
            SliceTo(FilterByTemperature(
                        findClosestInks(targetRgb, inkColors, NumTimes2(maxResults)),
                        temperatureFilter),
                    maxResults)))

SearchParsed(colorHex, parsed, maxResults, temperatureFilter) ==
    IF ~parsed.ok
    THEN Throw(InvalidColorFormat(colorHex))
    ELSE SearchNear(colorHex, parsed.val, maxResults, temperatureFilter)

searchInksByColor(colorHex, maxResults, temperatureFilter) ==
    SearchParsed(colorHex, hexToRgb(colorHex), maxResults, temperatureFilter)

(***************************************************************************)
(* analyze_color                                                           *)
(***************************************************************************)
AnalyzeClosest == 5

AnalysisOf(colorHex, rgb) ==
    Ok(ToolResult(
        [hex |-> colorHex,
         rgb |-> rgb,
         closest_inks |->
             ToSearchResults(findClosestInks(rgb, inkColors, Num(AnalyzeClosest))),
         color_family |-> getColorFamily(rgb),
         description |-> getColorDescription(rgb),
         temperature |-> TemperatureAnalysis(rgb)]))

AnalyzeParsed(colorHex, parsed) ==
    IF ~parsed.ok
    THEN Throw(InvalidColorFormat(colorHex))
    ELSE AnalysisOf(colorHex, parsed.val)

analyzeColor(colorHex) == AnalyzeParsed(colorHex, hexToRgb(colorHex))

(***************************************************************************)
(* get_ink_details                                                         *)
(***************************************************************************)
\* the digits without their leading zeros
RECURSIVE StripLeadingZeros(_)
StripLeadingZeros(digits) ==
    IF Len(digits) > 1 /\ Head(digits) = "0" THEN StripLeadingZeros(Tail(digits))
    ELSE digits

\* a variant of rgbToHex that formats (r << 16) + (g << 8) + b without padding
rgbToHexUnpadded(rgb) ==
    LET n == rgb[1] * 2 ^ 16 + rgb[2] * 2 ^ 8 + rgb[3]
    IN  <<"#">> \o StripLeadingZeros(
                     [i \in 1..6 |-> LowerHex[((n \div (16 ^ (6 - i))) % 16) + 1]])

\* rgbToHex: '#' and the six lowercase digits of (1 << 24) + (r << 16) + (g << 8) + b
rgbToHex(rgb) ==
    LET n == 2 ^ 24 + rgb[1] * 2 ^ 16 + rgb[2] * 2 ^ 8 + rgb[3]
    IN  <<"#">> \o [i \in 1..6 |-> LowerHex[((n \div (16 ^ (6 - i))) % 16) + 1]]

getInkDetails(inkId) ==
    IF \E i \in 1..Len(inkColors) : inkColors[i].ink_id = inkId
    THEN
      LET inkColor == inkColors[CHOOSE i \in 1..Len(inkColors) :
                                  /\ inkColors[i].ink_id = inkId
                                  /\ \A j \in 1..(i - 1) : inkColors[j].ink_id # inkId]
      IN  Ok(ToolResult(
              [ink_details |-> createSearchResult(inkColor, getInkMetadata(inkId),
                                                  Undefined),
               hex_color |-> rgbToHex(inkColor.rgb),
               color_family |-> getColorFamily(inkColor.rgb),
               color_description |-> getColorDescription(inkColor.rgb)]))
    ELSE Throw(JsError("Error", "Ink not found: <arg>", inkId, <<>>))

(***************************************************************************)
(* get_color_palette                                                       *)
(***************************************************************************)
UpperAlpha == <<"A","B","C","D","E","F","G","H","I","J","K","L","M",
                "N","O","P","Q","R","S","T","U","V","W","X","Y","Z">>
LowerAlpha == <<"a","b","c","d","e","f","g","h","i","j","k","l","m",
                "n","o","p","q","r","s","t","u","v","w","x","y","z">>

\* String.prototype.toLowerCase
ToLowerCase(s) ==
    [i \in 1..Len(s) |->
        IF \E k \in 1..26 : UpperAlpha[k] = s[i]
        THEN LowerAlpha[CHOOSE k \in 1..26 : UpperAlpha[k] = s[i]]
        ELSE s[i]]

\* theme.split(','): the segments between the commas, in order
RECURSIVE SplitOnComma(_, _)
SplitOnComma(s, current) ==
    IF s = <<>> THEN <<current>>
    ELSE IF Head(s) = "," THEN <<current>> \o SplitOnComma(Tail(s), <<>>)
    ELSE SplitOnComma(Tail(s), Append(current, Head(s)))

ThemeNames ==
    << <<"w","a","r","m">>,
       <<"c","o","o","l">>,
       <<"n","e","u","t","r","a","l">>,
       <<"e","a","r","t","h">>,
       <<"o","c","e","a","n">>,
       <<"a","u","t","u","m","n">>,
       <<"s","p","r","i","n","g">>,
       <<"s","u","m","m","e","r">>,
       <<"w","i","n","t","e","r">>,
       <<"p","a","s","t","e","l">>,
       <<"v","i","b","r","a","n","t">>,
       <<"m","o","n","o","c","h","r","o","m","e">>,
       <<"s","u","n","s","e","t">>,
       <<"f","o","r","e","s","t">>,
       <<"w","a","r","m","-","r","e","d","s">>,
       <<"c","o","o","l","-","b","l","u","e","s">>,
       <<"n","e","u","t","r","a","l","-","g","r","a","y","s">>,
       <<"t","e","m","p","e","r","a","t","u","r","e","-","g","r","a","d","i","e","n","t">> >>

ThemeTargets ==
    << <<<<255, 100, 50>>, <<255, 150, 0>>, <<200, 80, 80>>, <<180, 120, 60>>, <<220, 180, 100>>>>,
       <<<<50, 150, 255>>, <<100, 200, 200>>, <<150, 100, 255>>, <<80, 180, 150>>, <<120, 120, 200>>>>,
       <<<<140, 140, 140>>, <<160, 160, 160>>, <<120, 130, 125>>, <<135, 125, 130>>, <<125, 135, 140>>>>,
       <<<<139, 69, 19>>, <<160, 82, 45>>, <<210, 180, 140>>, <<107, 142, 35>>, <<85, 107, 47>>>>,
       <<<<0, 119, 190>>, <<0, 150, 136>>, <<72, 201, 176>>, <<135, 206, 235>>, <<25, 25, 112>>>>,
       <<<<255, 140, 0>>, <<255, 69, 0>>, <<220, 20, 60>>, <<184, 134, 11>>, <<139, 69, 19>>>>,
       <<<<154, 205, 50>>, <<124, 252, 0>>, <<173, 255, 47>>, <<50, 205, 50>>, <<0, 255, 127>>>>,
       <<<<255, 235, 59>>, <<255, 193, 7>>, <<76, 175, 80>>, <<139, 195, 74>>, <<3, 169, 244>>>>,
       <<<<224, 224, 224>>, <<144, 164, 174>>, <<96, 125, 139>>, <<33, 150, 243>>, <<0, 0, 128>>>>,
       <<<<255, 204, 204>>, <<204, 255, 204>>, <<204, 204, 255>>, <<255, 255, 204>>, <<255, 204, 255>>>>,
       <<<<255, 0, 0>>, <<0, 255, 0>>, <<0, 0, 255>>, <<255, 255, 0>>, <<255, 0, 255>>>>,
       <<<<255, 255, 255>>, <<224, 224, 224>>, <<192, 192, 192>>, <<128, 128, 128>>, <<64, 64, 64>>, <<0, 0, 0>>>>,
       <<<<255, 224, 130>>, <<255, 170, 85>>, <<255, 110, 80>>, <<200, 80, 120>>, <<100, 60, 110>>>>,
       <<<<34, 85, 34>>, <<20, 60, 20>>, <<60, 100, 60>>, <<100, 140, 100>>, <<140, 180, 140>>>>,
       <<<<200, 50, 50>>, <<255, 100, 80>>, <<220, 80, 60>>, <<255, 130, 100>>, <<180, 40, 40>>>>,
       <<<<50, 100, 200>>, <<80, 150, 255>>, <<100, 180, 230>>, <<60, 120, 180>>, <<40, 80, 160>>>>,
       <<<<120, 120, 120>>, <<140, 140, 140>>, <<160, 160, 160>>, <<100, 100, 100>>, <<180, 180, 180>>>>,
       <<<<255, 80, 50>>, <<255, 150, 100>>, <<180, 180, 180>>, <<100, 150, 200>>, <<50, 100, 255>>>> >>

\* the value of themeColors[key] as a (possibly array-like) object: its
\* length property and its indexed elements.  A key that is no theme name but
\* names a property every object inherits yields that inherited value:
\* "constructor" the function Object (length 1, no elements), "__proto__"
\* Object.prototype (no length); these are the inherited names that a
\* lower-cased key can equal.
NotFound == [found |-> FALSE, length |-> UndefinedNum, items |-> <<>>]

\* the position of key in names, 0 when absent
IndexOf(names, key) ==
    IF \E i \in 1..Len(names) : names[i] = key
    THEN CHOOSE i \in 1..Len(names) : names[i] = key
    ELSE 0

LookupTheme(key, i) ==
    IF i > 0 THEN [found |-> TRUE, length |-> Num(Len(ThemeTargets[i])),
                   items |-> ThemeTargets[i]]
    ELSE IF key = <<"c","o","n","s","t","r","u","c","t","o","r">>
    THEN [found |-> TRUE, length |-> Num(1), items |-> <<>>]
    ELSE IF key = <<"_","_","p","r","o","t","o","_","_">>
    THEN [found |-> TRUE, length |-> UndefinedNum, items |-> <<>>]
    ELSE NotFound

themeColors(key) == LookupTheme(key, IndexOf(ThemeNames, key))

ArrayOf(items) == [found |-> TRUE, length |-> Num(Len(items)), items |-> items]

\* theme.split(',').map(hex => hexToRgb(hex.trim())): the parsed segments, or
\* the failure of the first segment that fails
\* segments.map(hex => hexToRgb(hex.trim()))
ParseSegments(segments) ==
    [i \in 1..Len(segments) |-> hexToRgb(Trim(segments[i]))]

CollectParsed(parsed) ==
    IF \E i \in 1..Len(parsed) : ~parsed[i].ok
    THEN Throw(JsError("Error", "Invalid hex color string", <<>>, <<>>))
    ELSE Ok([i \in 1..Len(parsed) |-> parsed[i].val])

ParseCustomPalette(theme) == CollectParsed(ParseSegments(SplitOnComma(theme, <<>>)))

\* generateHarmonyColors(baseHsl, harmony).map(hslToRgb)
HarmonyFromHsl(harmonyHsl) ==
    IF ~harmonyHsl.ok THEN harmonyHsl
    ELSE Ok([i \in 1..Len(harmonyHsl.val) |-> hslToRgb(harmonyHsl.val[i])])

HarmonyFromBase(baseRgb, harmony) ==
    IF ~baseRgb.ok THEN baseRgb
    ELSE HarmonyFromHsl(generateHarmonyColors(rgbToHsl(baseRgb.val), harmony))

\* the harmony branch: hexToRgb, rgbToHsl, generateHarmonyColors, hslToRgb
HarmonyTargets(theme, harmony) == HarmonyFromBase(hexToRgb(theme), harmony)

\* lines 621-643: the target colours of a theme request, or the error thrown
\* lines 623-631: the harmony branch and its catch
HarmonyPalette(t) ==
    IF t.ok THEN Ok(ArrayOf(t.val))
    ELSE Throw(JsError("Error",
           "Invalid base color for harmony rule. Please use a single valid hex code.",
           <<>>, <<>>))

\* lines 634-639: the custom-palette branch and its catch
CustomPalette(t) ==
    IF t.ok THEN Ok(ArrayOf(t.val))
    ELSE Throw(JsError("Error",
           "Invalid custom palette format. Please use a comma-separated list of hex codes",
           <<>>, <<>>))

\* lines 632-642: entry is themeColors[lowerCaseTheme]
ThemePalette(theme, entry) ==
    IF entry.found THEN Ok(entry)
    ELSE IF (theme # <<>> /\ Head(theme) = "#")
            \/ (\E i \in 1..Len(theme) : theme[i] = ",")
    THEN CustomPalette(ParseCustomPalette(theme))
    ELSE Throw(JsError("Error", "Unknown theme: <arg>. Available themes are: <list>",
                       theme, ThemeNames))

ResolveTargets(theme, harmony) ==
    IF StrTruthy(harmony)
    THEN HarmonyPalette(HarmonyTargets(theme, harmony))
    ELSE ThemePalette(theme, themeColors(ToLowerCase(theme)))

TopCandidates == 5

\* a variant of the loop that never records the chosen id
RECURSIVE PaletteLoopNoExclusion(_, _, _, _, _)
PaletteLoopNoExclusion(i, bound, targetColors, paletteInks, usedInkIds) ==
    IF ~IntLessThan(i, bound) THEN Ok(paletteInks)
    ELSE IF i + 1 > Len(targetColors.items)
    THEN IF inkColors # <<>>
         THEN Throw(JsError("TypeError", "undefined is not iterable", <<>>, <<>>))
         ELSE PaletteLoopNoExclusion(i + 1, bound, targetColors, paletteInks, usedInkIds)
    ELSE
      LET targetRgb == targetColors.items[i + 1]
          Unused(ink) == ink.ink_id \notin usedInkIds
          closestInks ==
              SelectSeq(findClosestInks(targetRgb, inkColors, Num(TopCandidates)), Unused)
      IN  IF Len(closestInks) > 0
          THEN LET ink == closestInks[1]
               IN  PaletteLoopNoExclusion(i + 1, bound, targetColors,
                       Append(paletteInks,
                              createSearchResult(ink, getInkMetadata(ink.ink_id),
                                                 ink.distance)),
                       usedInkIds)
          ELSE PaletteLoopNoExclusion(i + 1, bound, targetColors, paletteInks, usedInkIds)

\* a variant of the loop that takes the last candidate instead of the first
RECURSIVE PaletteLoopTakesLast(_, _, _, _, _)
PaletteLoopTakesLast(i, bound, targetColors, paletteInks, usedInkIds) ==
    IF ~IntLessThan(i, bound) THEN Ok(paletteInks)
    ELSE IF i + 1 > Len(targetColors.items)
    THEN IF inkColors # <<>>
         THEN Throw(JsError("TypeError", "undefined is not iterable", <<>>, <<>>))
         ELSE PaletteLoopTakesLast(i + 1, bound, targetColors, paletteInks, usedInkIds)
    ELSE
      LET targetRgb == targetColors.items[i + 1]
          Unused(ink) == ink.ink_id \notin usedInkIds
          closestInks ==
              SelectSeq(findClosestInks(targetRgb, inkColors, Num(TopCandidates)), Unused)
      IN  IF Len(closestInks) > 0
          THEN LET ink == closestInks[Len(closestInks)]
               IN  PaletteLoopTakesLast(i + 1, bound, targetColors,
                       Append(paletteInks,
                              createSearchResult(ink, getInkMetadata(ink.ink_id),
                                                 ink.distance)),
                       usedInkIds \cup {ink.ink_id})
          ELSE PaletteLoopTakesLast(i + 1, bound, targetColors, paletteInks, usedInkIds)

\* a variant of the loop that puts each chosen ink in front of the palette
RECURSIVE PaletteLoopPrepends(_, _, _, _, _)
PaletteLoopPrepends(i, bound, targetColors, paletteInks, usedInkIds) ==
    IF ~IntLessThan(i, bound) THEN Ok(paletteInks)
    ELSE IF i + 1 > Len(targetColors.items)
    THEN IF inkColors # <<>>
         THEN Throw(JsError("TypeError", "undefined is not iterable", <<>>, <<>>))
         ELSE PaletteLoopPrepends(i + 1, bound, targetColors, paletteInks, usedInkIds)
    ELSE
      LET targetRgb == targetColors.items[i + 1]
          Unused(ink) == ink.ink_id \notin usedInkIds
          closestInks ==
              SelectSeq(findClosestInks(targetRgb, inkColors, Num(TopCandidates)), Unused)
      IN  IF Len(closestInks) > 0
          THEN LET ink == closestInks[1]
               IN  PaletteLoopPrepends(i + 1, bound, targetColors,
                       <<createSearchResult(ink, getInkMetadata(ink.ink_id),
                                            ink.distance)>> \o paletteInks,
                       usedInkIds \cup {ink.ink_id})
          ELSE PaletteLoopPrepends(i + 1, bound, targetColors, paletteInks, usedInkIds)

\* lines 648-658: the loop over the targets, from index i (0-based)
RECURSIVE PaletteLoop(_, _, _, _, _)
PaletteLoop(i, bound, targetColors, paletteInks, usedInkIds) ==
    IF ~IntLessThan(i, bound) THEN Ok(paletteInks)
    ELSE IF i + 1 > Len(targetColors.items)
    THEN \* targetRgb is undefined: calculateColorDistance cannot destructure
         \* it, which findClosestInks reaches for a non-empty catalog
         IF inkColors # <<>>
         THEN Throw(JsError("TypeError", "undefined is not iterable", <<>>, <<>>))
         ELSE PaletteLoop(i + 1, bound, targetColors, paletteInks, usedInkIds)
    ELSE
      LET targetRgb == targetColors.items[i + 1]
          Unused(ink) == ink.ink_id \notin usedInkIds
          closestInks ==
              SelectSeq(findClosestInks(targetRgb, inkColors, Num(TopCandidates)), Unused)
      IN  IF Len(closestInks) > 0
          THEN LET ink == closestInks[1]
               IN  PaletteLoop(i + 1, bound, targetColors,
                       Append(paletteInks,
                              createSearchResult(ink, getInkMetadata(ink.ink_id),
                                                 ink.distance)),
                       usedInkIds \cup {ink.ink_id})
          ELSE PaletteLoop(i + 1, bound, targetColors, paletteInks, usedInkIds)

RECURSIVE RSum(_)
RSum(s) == IF s = <<>> THEN RInt(0) ELSE RAdd(Head(s), RSum(Tail(s)))

RECURSIVE RMaxOf(_)
RMaxOf(s) == IF Len(s) = 1 THEN s[1] ELSE RMax(Head(s), RMaxOf(Tail(s)))

RECURSIVE RMinOf(_)
RMinOf(s) == IF Len(s) = 1 THEN s[1] ELSE RMin(Head(s), RMinOf(Tail(s)))

\* the summary of the temperatures and categories of a non-empty palette
PaletteTemperatureSummary(temperatures, categories) ==
    LET Count(c) == Cardinality({i \in 1..Len(categories) : categories[i] = c})
        \* reduce over warm, cool, neutral from ['neutral', 0], replacing
        \* the running maximum only on a strictly larger count
        m1 == IF Count("warm") > 0 THEN <<"warm", Count("warm")>> ELSE <<"neutral", 0>>
        m2 == IF Count("cool") > m1[2] THEN <<"cool", Count("cool")>> ELSE m1
        m3 == IF Count("neutral") > m2[2] THEN <<"neutral", Count("neutral")>> ELSE m2
        HasCat(c) == \E i \in 1..Len(categories) : categories[i] = c
    IN  [average_temperature |->
             MathRound(RDiv(RSum(temperatures), RInt(Len(temperatures)))),
         temperature_range |-> <<RMinOf(temperatures), RMaxOf(temperatures)>>,
         dominant_category |-> m3[1],
         temperature_harmony |->
             IF RLt(RSub(RMaxOf(temperatures), RMinOf(temperatures)), RInt(800))
               THEN "monochromatic"
             ELSE IF RLt(RInt(2000), RSub(RMaxOf(temperatures), RMinOf(temperatures)))
                     /\ HasCat("warm") /\ HasCat("cool")
               THEN "complementary"
             ELSE "mixed"]

PaletteTemperatures(temperatures) ==
    PaletteTemperatureSummary(temperatures,
        [i \in 1..Len(temperatures) |-> getTemperatureCategory(temperatures[i])])

calculatePaletteTemperatureAnalysis(inks) ==
    IF Len(inks) = 0
    THEN [average_temperature |-> NeutralKelvin,
          temperature_range |-> <<RInt(NeutralKelvin), RInt(NeutralKelvin)>>,
          dominant_category |-> "neutral",
          temperature_harmony |-> "monochromatic"]
    ELSE PaletteTemperatures(
             [i \in 1..Len(inks) |-> calculateColorTemperature(inks[i].ink.rgb)])

\* lines 660-677: the answer built from the collected inks
PaletteAnswer(theme, built) ==
    IF ~built.ok THEN built
    ELSE Ok(ToolResult(
            [theme |-> theme,
             inks |-> built.val,
             description |-> <<"A curated palette of ", Len(built.val),
                               " fountain pen inks matching the ", theme, " theme.">>,
             temperature_analysis |-> calculatePaletteTemperatureAnalysis(built.val)]))

\* lines 645-658: the loop, bounded by Math.min(paletteSize, targetColors.length)
PaletteOf(theme, paletteSize, targets) ==
    IF ~targets.ok THEN targets
    ELSE PaletteAnswer(theme,
             PaletteLoop(0, MathMin(paletteSize, targets.val.length),
                         targets.val, <<>>, {}))

getColorPalette(theme, paletteSize, harmony) ==
    PaletteOf(theme, paletteSize, ResolveTargets(theme, harmony))

(***************************************************************************)
(* search_inks_by_name and get_inks_by_maker                               *)
(***************************************************************************)
\* the loop over the metadata entries: an entry whose id is in the catalog
\* gives a result built from the first catalog entry with the id
RECURSIVE ResultsOfMetadata(_)
ResultsOfMetadata(entries) ==
    IF entries = <<>> THEN <<>>
    ELSE IF \E i \in 1..Len(inkColors) : inkColors[i].ink_id = Head(entries).ink_id
    THEN <<createSearchResult(
               inkColors[CHOOSE i \in 1..Len(inkColors) :
                            /\ inkColors[i].ink_id = Head(entries).ink_id
                            /\ \A j \in 1..(i - 1) :
                                  inkColors[j].ink_id # Head(entries).ink_id],
               Head(entries), Undefined)>>
             \o ResultsOfMetadata(Tail(entries))
    ELSE ResultsOfMetadata(Tail(entries))

\* searchResults is the answer of this.fuse.search(query): the search of the
\* Fuse library is not part of the repository, so its answer, a sequence of
\* metadata entries, is an input of the operation
searchInksByName(query, maxResults, searchResults) ==
    Ok(ToolResult(
        [query |-> query,
         results_count |-> Len(ResultsOfMetadata(SliceTo(searchResults, maxResults))),
         results |-> ResultsOfMetadata(SliceTo(searchResults, maxResults))]))

\* String.prototype.toLowerCase on the maker names of the bounded inputs
MakerToLowerCase(maker) ==
    CASE maker = "Maker 1" -> "maker 1"
      [] maker = "MAKER 2" -> "maker 2"
      [] OTHER -> maker

\* inkSearchData.filter(item => item.maker.toLowerCase() === makerLower)
MakerInks(makerLower) ==
    LET IsOfMaker(item) == MakerToLowerCase(item.maker) = makerLower
    IN  SelectSeq(inkSearchData, IsOfMaker)

getInksByMaker(maker, maxResults) ==
    Ok(ToolResult(
        [maker |-> maker,
         results_count |->
             Len(ResultsOfMetadata(SliceTo(MakerInks(MakerToLowerCase(maker)), maxResults))),
         results |->
             ResultsOfMetadata(SliceTo(MakerInks(MakerToLowerCase(maker)), maxResults))]))

(***************************************************************************)
(* The catalog and the metadata collection after a call.  The tools read   *)
(* this.inkColors with find and hand it to findClosestInks; they read      *)
(* this.inkSearchData with find and filter, which build new arrays.        *)
(***************************************************************************)
\* a catalog entry without the distance the search adds
WithoutDistance(ink) == [fullname |-> ink.fullname, ink_id |-> ink.ink_id, rgb |-> ink.rgb]

\* a variant of findClosestInks that sorts the array it is given
InksAfterFindClosestInPlace(targetRgb, inks) ==
    LET distances == [i \in 1..Len(inks) |-> WithDistance(inks[i], targetRgb)]
        sorted == SortByDistance(distances)
    IN  [i \in 1..Len(inks) |-> WithoutDistance(sorted[i])]

\* the array passed to findClosestInks, after the call: map builds the array
\* `distances` of new objects, sort orders `distances` in place and slice
\* copies from it, so the array passed in keeps its entries and their order
InksAfterFindClosest(targetRgb, inks) ==
    LET distances == [i \in 1..Len(inks) |-> WithDistance(inks[i], targetRgb)]
        sorted == SortByDistance(distances)
    IN  inks

\* the catalog after the calls of findClosestInks for the targets i..k
RECURSIVE InksAfterTargets(_, _, _, _)
InksAfterTargets(items, i, k, inks) ==
    IF i > k THEN inks
    ELSE InksAfterTargets(items, i + 1, k, InksAfterFindClosest(items[i], inks))

\* the number of targets the palette loop passes to findClosestInks
LoopTargets(bound, items) ==
    CASE bound.k = "int" -> IF bound.v < 0 THEN 0
                            ELSE IF bound.v < Len(items) THEN bound.v ELSE Len(items)
      [] bound.k = "inf" -> IF bound.v > 0 THEN Len(items) ELSE 0
      [] OTHER -> 0

InksAfterPalette(paletteSize, targets) ==
    IF ~targets.ok THEN inkColors
    ELSE InksAfterTargets(targets.val.items, 1,
                          LoopTargets(MathMin(paletteSize, targets.val.length),
                                      targets.val.items),
                          inkColors)

InksAfterParsed(parsed) ==
    IF parsed.ok THEN InksAfterFindClosest(parsed.val, inkColors) ELSE inkColors

(***************************************************************************)
(* The call-tool request handler.                                          *)
(***************************************************************************)
NoArgs == [undefined |-> TRUE]

DefaultSearchResults == 20

DefaultPaletteSize == 5

DefaultMakerResults == 50

\* the switch on the tool name; the case analyze_color_temperature is not
\* modelled and no modelled call names it
Dispatch(name, args) ==
    CASE name = "search_inks_by_color" ->
           searchInksByColor(args.color, NumOr(args.max_results, DefaultSearchResults),
                             args.temperature_filter)
      [] name = "search_inks_by_name" ->
           IF fuse = NoFuse
           THEN Throw(JsError("TypeError",
                              "Cannot read properties of undefined (reading 'search')",
                              <<>>, <<>>))
           ELSE searchInksByName(args.query,
                                 NumOr(args.max_results, DefaultSearchResults),
                                 args.searchResults)
      [] name = "get_ink_details" -> getInkDetails(args.ink_id)
      [] name = "get_inks_by_maker" ->
           getInksByMaker(args.maker, NumOr(args.max_results, DefaultMakerResults))
      [] name = "analyze_color" -> analyzeColor(args.color)
      [] name = "get_color_palette" ->
           getColorPalette(args.theme, NumOr(args.palette_size, DefaultPaletteSize),
                           args.harmony)
      [] OTHER -> Throw(JsError("Error", "Unknown tool: <arg>", name, <<>>))

\* this.inkColors after the handler has served the call
CatalogAfter(name, args) ==
    IF args = NoArgs THEN inkColors
    ELSE CASE name \in {"search_inks_by_color", "analyze_color"} ->
                InksAfterParsed(hexToRgb(args.color))
           [] name = "get_color_palette" ->
                InksAfterPalette(NumOr(args.palette_size, DefaultPaletteSize),
                                 ResolveTargets(args.theme, args.harmony))
           [] OTHER -> inkColors

\* a variant of the handler without the catch block: the error is thrown on
CaughtAnswerRethrows(r) == r

\* the answer to a call: the tool's result, or the caught error as a text
\* item; only the missing-arguments error is thrown outside the try block
\* the catch block: an error thrown by a tool becomes a text item
CaughtAnswer(r) == IF r.ok THEN r ELSE Ok(ToolError(r.err))

CallTool(name, args) ==
    IF args = NoArgs
    THEN Throw(JsError("Error", "Missing arguments", <<>>, <<>>))
    ELSE CaughtAnswer(Dispatch(name, args))

(***************************************************************************)
(* Specification SpecHex: hexToRgb applied to every string of a bounded    *)
(* set.                                                                    *)
(***************************************************************************)
MaxHexLen == 7

HexAlphabet == {"1", "F", "g", "#"}

StringsOver(alphabet, n) == UNION {[1..k -> alphabet] : k \in 0..n}

\* inputs that exercise the sign, white-space and 0x paths of parseInt
SpecialHexInputs ==
    { <<"-","1","2","3","4","5">>, <<"#","+","f","f","f","f","f">>,
      <<"0","x","1","2","3","4">>, <<" ","a","b","c","d","e">>,
      <<"#","0","X","0","0","f","f">>, <<"-","0","x","f","f","f">>,
      <<"f","f","0","0","0","0">>, <<"#","0","0","f","F","0","0">>,
      <<"-","g","1","1","1","1">>, <<"1","2","3","4","5","g">> }

HexInputs == StringsOver(HexAlphabet, MaxHexLen) \cup SpecialHexInputs

InitHex ==
    /\ inkColors = <<>>
    /\ inkSearchData = <<>>
    /\ fuse = FuseOver(inkSearchData)
    /\ process = ServingFrom(inkColors, inkSearchData)
    /\ request \in {[op |-> "hexToRgb", hex |-> s] : s \in HexInputs}
    /\ response = NoResponse

ApplyHexToRgb ==
    /\ request.op = "hexToRgb"
    /\ response = NoResponse
    /\ response' = hexToRgb(request.hex)
    /\ UNCHANGED <<inkColors, inkSearchData, fuse, process, request>>

NextHex == ApplyHexToRgb

SpecHex == InitHex /\ [][NextHex]_vars

(***************************************************************************)
(* Specification SpecHarmony: generateHarmonyColors applied to bounded     *)
(* sets of base colours and rule strings.                                  *)
(***************************************************************************)
HueSteps == 12

HarmonyBases ==
    {<<Rat(360 * k, HueSteps), sl[1], sl[2]>> :
        k \in 0..(HueSteps - 1),
        sl \in {<<RInt(1), Rat(1, 2)>>, <<Rat(1, 2), Rat(1, 4)>>}}
    \cup {rgbToHsl(c) : c \in {<<255, 0, 0>>, <<10, 200, 30>>, <<128, 128, 128>>,
                                <<0, 0, 255>>, <<200, 100, 255>>}}

HarmonyInputs ==
    HarmonyRules \cup {"invalid-harmony", "Triadic", "constructor", "toString", ""}

InitHarmony ==
    /\ inkColors = <<>>
    /\ inkSearchData = <<>>
    /\ fuse = FuseOver(inkSearchData)
    /\ process = ServingFrom(inkColors, inkSearchData)
    /\ request \in {[op |-> "generateHarmonyColors", baseHsl |-> b, harmony |-> r] :
                        b \in HarmonyBases, r \in HarmonyInputs}
    /\ response = NoResponse

ApplyGenerateHarmonyColors ==
    /\ request.op = "generateHarmonyColors"
    /\ response = NoResponse
    /\ response' = generateHarmonyColors(request.baseHsl, request.harmony)
    /\ UNCHANGED <<inkColors, inkSearchData, fuse, process, request>>

NextHarmony == ApplyGenerateHarmonyColors

SpecHarmony == InitHarmony /\ [][NextHarmony]_vars

(***************************************************************************)
(* Specification SpecNearest: findClosestInks applied to bounded catalogs, *)
(* targets and limits.                                                     *)
(***************************************************************************)
MaxNearestInks == 4

MaxLimit == 5

InkIds == <<"a", "b", "c", "d", "e", "f", "g", "h", "i", "j">>

InkNames == <<"ink 1", "ink 2", "ink 3", "ink 4", "ink 5", "ink 6", "ink 7",
              "ink 8", "ink 9", "ink 10">>

\* the catalog whose i-th entry has the i-th name, the id ids[i] and the
\* colour colours[i]
CatalogOf(ids, colours) ==
    [i \in 1..Len(colours) |->
        [fullname |-> InkNames[i], ink_id |-> ids[i], rgb |-> colours[i]]]

\* two of these colours are at the same distance from either target
NearestColours == {<<10, 0, 0>>, <<0, 10, 0>>, <<20, 0, 0>>}

NearestTargets == {<<0, 0, 0>>, <<20, 0, 0>>}

NearestCatalogs ==
    {CatalogOf(InkIds, cs) : cs \in StringsOver(NearestColours, MaxNearestInks)}

NearestLimits ==
    {Num(n) : n \in -2..MaxLimit} \cup {NaN, Infinity, NegInfinity, UndefinedNum}

InitNearest ==
    /\ inkColors \in NearestCatalogs
    /\ inkSearchData = <<>>
    /\ fuse = FuseOver(inkSearchData)
    /\ process = ServingFrom(inkColors, inkSearchData)
    /\ request \in {[op |-> "findClosestInks", targetRgb |-> t, maxResults |-> n] :
                        t \in NearestTargets, n \in NearestLimits}
    /\ response = NoResponse

ApplyFindClosestInks ==
    /\ request.op = "findClosestInks"
    /\ response = NoResponse
    /\ response' = Ok(findClosestInks(request.targetRgb, inkColors, request.maxResults))
    /\ UNCHANGED <<inkColors, inkSearchData, fuse, process, request>>

NextNearest == ApplyFindClosestInks

SpecNearest == InitNearest /\ [][NextNearest]_vars

(***************************************************************************)
(* Tool calls.  CallToolRequest hands a call to the handler and records    *)
(* its answer; each behaviour holds one call, made while none is answered. *)
(***************************************************************************)
CallToolRequest(name, args) ==
    /\ request' = [op |-> "tools/call", name |-> name, args |-> args]
    /\ response' = CallTool(name, args)
    /\ inkColors' = CatalogAfter(name, args)
    /\ UNCHANGED <<inkSearchData, fuse, process>>

\* the metadata collection of the bounded catalogs: id "a" twice, id "c" once
\* and an id no catalog entry has; other catalog ids have no metadata
SomeMetadata ==
    << [ink_id |-> "a", name |-> "first a", scanned |-> "2023-01-01",
        fullname |-> "maker 1 first a", maker |-> "maker 1"],
       [ink_id |-> "c", name |-> "only c", scanned |-> "2023-01-02",
        fullname |-> "maker 2 only c", maker |-> "maker 2"],
       [ink_id |-> "a", name |-> "second a", scanned |-> "2023-01-03",
        fullname |-> "maker 1 second a", maker |-> "maker 1"],
       [ink_id |-> "zz", name |-> "orphan", scanned |-> "2023-01-04",
        fullname |-> "maker 2 orphan", maker |-> "maker 2"] >>

(***************************************************************************)
(* Specification SpecPalette: get_color_palette calls against bounded      *)
(* catalogs.                                                               *)
(***************************************************************************)
MaxInks == 6

MaxPaletteSize == 6

\* catalog ids: all different, or one id shared by the first five entries
UniqueIds == InkIds

SharedIds == <<"a", "a", "a", "a", "a", "b", "b", "c", "c", "d">>

PaletteColours == {<<255, 0, 0>>, <<0, 0, 0>>}

\* colour rows: k entries of one colour followed by entries of the other
PaletteColourRows ==
    UNION {{[i \in 1..n |-> IF i <= k THEN c[1] ELSE c[2]] :
                k \in 0..n, c \in PaletteColours \X PaletteColours} :
           n \in 0..MaxInks}

PaletteCatalogs ==
    {CatalogOf(ids, cs) : ids \in {UniqueIds, SharedIds}, cs \in PaletteColourRows}

PaletteThemes ==
    { <<"m","o","n","o","c","h","r","o","m","e">>,
      <<"V","i","b","r","a","n","t">>,
      <<"n","o","t","-","a","-","t","h","e","m","e">>,
      <<"c","o","n","s","t","r","u","c","t","o","r">>,
      <<"_","_","p","r","o","t","o","_","_">>,
      <<"#","f","f","0","0","0","0">>,
      <<"f","f","0","0","0","0">>,
      <<"#","F","F","0","0","0","0",",","#","f","f","0","0","0","0">>,
      <<"#","f","f","0","0","0","0",","," ","0","0","F","F","F","F">>,
      <<"#","g","g","g","g","g","g">>,
      <<"#","f","f","0","0","0","0",",","z","z">>,
      <<"1","2","3","4","5","g",",","#","f","f","0","0","0","0">>,
      <<"#","f","f","0","0","0","0",",">>,
      <<"#","0","0","0","0","0","0",",","#","0","0","0","0","0","0",",",
        "#","0","0","0","0","0","0",",","#","0","0","0","0","0","0",",",
        "#","0","0","0","0","0","0",",","#","0","0","0","0","0","0">> }

PaletteHarmonies ==
    {Undefined, "complementary", "triadic", "invalid-harmony", "constructor"}

PaletteSizes ==
    {Num(n) : n \in -1..3} \cup {Num(MaxPaletteSize), NaN, Infinity, UndefinedNum}

\* themes that are also sent together with a harmony rule
HarmonyThemes ==
    { <<"#","f","f","0","0","0","0">>,
      <<"#","g","g","g","g","g","g">>,
      <<"n","o","t","-","a","-","t","h","e","m","e">>,
      <<"m","o","n","o","c","h","r","o","m","e">>,
      <<"s","p","r","i","n","g">>,
      <<"#","F","F","0","0","0","0",",","#","f","f","0","0","0","0">> }

PaletteArgs ==
    {[theme |-> t, palette_size |-> n, harmony |-> h] :
        t \in PaletteThemes, n \in PaletteSizes, h \in {Undefined}}
    \cup
    {[theme |-> t, palette_size |-> n, harmony |-> h] :
        t \in HarmonyThemes, n \in PaletteSizes, h \in PaletteHarmonies \ {Undefined}}

InitPalette ==
    /\ inkColors \in PaletteCatalogs
    /\ inkSearchData = SomeMetadata
    /\ fuse = FuseOver(inkSearchData)
    /\ process = ServingFrom(inkColors, inkSearchData)
    /\ request = NoRequest
    /\ response = NoResponse

GetColorPaletteCall ==
    \E args \in PaletteArgs :
        /\ response = NoResponse
        /\ CallToolRequest("get_color_palette", args)

NextPalette == GetColorPaletteCall

SpecPalette == InitPalette /\ [][NextPalette]_vars

(***************************************************************************)
(* Specification SpecSearch: search_inks_by_color, analyze_color and       *)
(* get_ink_details calls, a call of an unknown tool and a call without     *)
(* arguments, against bounded catalogs.                                    *)
(***************************************************************************)
MaxSearchInks == 4

MaxSearchLimit == 3

\* a warm and a cool colour
SearchColours == {<<255, 0, 0>>, <<0, 0, 255>>}

SearchCatalogs ==
    {CatalogOf(InkIds, cs) : cs \in StringsOver(SearchColours, MaxSearchInks)}

SearchHexes ==
    { <<"#","f","f","0","0","0","0">>, <<"0","0","0","0","F","F">>,
      <<"g","g","g","g","g","g">>, <<"#","f","f">> }

SearchLimits ==
    {Num(n) : n \in -2..MaxSearchLimit} \cup {NaN, Infinity, NegInfinity, UndefinedNum}

SearchFilters == {Undefined, "warm", "cool", "neutral"}

SearchArgs ==
    {[color |-> c, max_results |-> n, temperature_filter |-> f] :
        c \in SearchHexes, n \in SearchLimits, f \in SearchFilters}

InitSearch ==
    /\ inkColors \in SearchCatalogs
    /\ inkSearchData = SomeMetadata
    /\ fuse = FuseOver(inkSearchData)
    /\ process = ServingFrom(inkColors, inkSearchData)
    /\ request = NoRequest
    /\ response = NoResponse

SearchInksByColorCall ==
    \E args \in SearchArgs :
        /\ response = NoResponse
        /\ CallToolRequest("search_inks_by_color", args)

AnalyzeColorCall ==
    \E c \in SearchHexes :
        /\ response = NoResponse
        /\ CallToolRequest("analyze_color", [color |-> c])

GetInkDetailsCall ==
    \E id \in {"a", "c", "zz"} :
        /\ response = NoResponse
        /\ CallToolRequest("get_ink_details", [ink_id |-> id])

UnknownToolCall ==
    /\ response = NoResponse
    /\ CallToolRequest("no_such_tool", [color |-> <<>>])

MissingArgumentsCall ==
    /\ response = NoResponse
    /\ CallToolRequest("analyze_color", NoArgs)

NextSearch ==
    \/ SearchInksByColorCall
    \/ AnalyzeColorCall
    \/ GetInkDetailsCall
    \/ UnknownToolCall
    \/ MissingArgumentsCall

SpecSearch == InitSearch /\ [][NextSearch]_vars

(***************************************************************************)
(* Specification SpecClassifier: getColorFamily and getColorDescription    *)
(* applied to the triplets over a grid of channel values.                  *)
(***************************************************************************)
ChannelSteps == 5

\* channel values next to the thresholds of the classifier
BoundaryChannels == {84, 85, 99, 100, 121, 122, 130, 131, 150, 151, 170, 171}

Channels ==
    {(k * 255) \div ChannelSteps : k \in 0..ChannelSteps} \cup BoundaryChannels

\* the triplets of the examples in the doc comments and in the colour-family
\* test script
ExampleTriplets ==
    { <<255, 0, 0>>, <<128, 128, 128>>, <<255, 165, 0>>, <<64, 64, 64>>,
      <<255, 200, 200>>, <<93, 93, 118>>, <<100, 100, 100>>, <<80, 85, 105>>,
      <<70, 75, 95>>, <<85, 95, 80>>, <<95, 80, 85>>, <<90, 92, 100>>,
      <<120, 118, 122>> }

Triplets == (Channels \X Channels \X Channels) \cup ExampleTriplets

InitClassifier ==
    /\ inkColors = <<>>
    /\ inkSearchData = <<>>
    /\ fuse = FuseOver(inkSearchData)
    /\ process = ServingFrom(inkColors, inkSearchData)
    /\ request \in {[op |-> f, rgb |-> t] :
                        f \in {"getColorFamily", "getColorDescription"},
                        t \in Triplets}
    /\ response = NoResponse

ApplyGetColorFamily ==
    /\ request.op = "getColorFamily"
    /\ response = NoResponse
    /\ response' = Ok(getColorFamily(request.rgb))
    /\ UNCHANGED <<inkColors, inkSearchData, fuse, process, request>>

ApplyGetColorDescription ==
    /\ request.op = "getColorDescription"
    /\ response = NoResponse
    /\ response' = Ok(getColorDescription(request.rgb))
    /\ UNCHANGED <<inkColors, inkSearchData, fuse, process, request>>

NextClassifier == ApplyGetColorFamily \/ ApplyGetColorDescription

SpecClassifier == InitClassifier /\ [][NextClassifier]_vars

(***************************************************************************)
(* Specification SpecHexRoundTrip: rgbToHex followed by hexToRgb on        *)
(* triplets, and hexToRgb followed by rgbToHex on valid hex strings.       *)
(***************************************************************************)
\* channel values with one and with two significant hexadecimal digits
SmallChannels == {0, 1, 10, 15, 16, 254}

RoundTripTriplets == Triplets \cup (SmallChannels \X SmallChannels \X SmallChannels)

\* two-digit channel strings in both letter cases
HexPairs ==
    { <<"0","0">>, <<"0","a">>, <<"0","A">>, <<"f","F">>, <<"F","f">>,
      <<"1","0">>, <<"7","f">>, <<"C","3">> }

ValidHexStrings ==
    {prefix \o p[1] \o p[2] \o p[3] :
        prefix \in {<<>>, <<"#">>}, p \in HexPairs \X HexPairs \X HexPairs}

InitHexRoundTrip ==
    /\ inkColors = <<>>
    /\ inkSearchData = <<>>
    /\ fuse = FuseOver(inkSearchData)
    /\ process = ServingFrom(inkColors, inkSearchData)
    /\ request \in {[op |-> "rgbToHex", rgb |-> t] : t \in RoundTripTriplets}
                   \cup {[op |-> "hexToRgb", hex |-> h] : h \in ValidHexStrings}
    /\ response = NoResponse

\* hexToRgb(hex), with the string it was given
HexAndBack(hex) == [hex |-> hex, rgb |-> hexToRgb(hex)]

\* rgbToHex(rgb) of a parsed colour
RgbAndBack(parsed) ==
    IF parsed.ok THEN [rgb |-> parsed, hex |-> rgbToHex(parsed.val)]
    ELSE [rgb |-> parsed, hex |-> <<>>]

\* const hex = rgbToHex(color.rgb); const backToRgb = hexToRgb(hex)
ApplyRgbToHexAndBack ==
    /\ request.op = "rgbToHex"
    /\ response = NoResponse
    /\ response' = Ok(HexAndBack(rgbToHex(request.rgb)))
    /\ UNCHANGED <<inkColors, inkSearchData, fuse, process, request>>

\* rgbToHex(hexToRgb(hex))
ApplyHexToRgbAndBack ==
    /\ request.op = "hexToRgb"
    /\ response = NoResponse
    /\ response' = Ok(RgbAndBack(hexToRgb(request.hex)))
    /\ UNCHANGED <<inkColors, inkSearchData, fuse, process, request>>

NextHexRoundTrip == ApplyRgbToHexAndBack \/ ApplyHexToRgbAndBack

SpecHexRoundTrip == InitHexRoundTrip /\ [][NextHexRoundTrip]_vars

(***************************************************************************)
(* Specification SpecHslRoundTrip: rgbToHsl followed by hslToRgb on        *)
(* triplets, and hslToRgb on a grid of HSL colours.                        *)
(***************************************************************************)
HslGrid ==
    {<<Rat(360 * k, HueSteps), sat, light>> :
        k \in 0..(HueSteps - 1),
        sat \in {RInt(0), Rat(1, 2), RInt(1)},
        light \in {RInt(0), Rat(1, 4), Rat(1, 2), Rat(3, 4), RInt(1)}}

InitHslRoundTrip ==
    /\ inkColors = <<>>
    /\ inkSearchData = <<>>
    /\ fuse = FuseOver(inkSearchData)
    /\ process = ServingFrom(inkColors, inkSearchData)
    /\ request \in {[op |-> "rgbToHsl", rgb |-> t] : t \in Triplets}
                   \cup {[op |-> "hslToRgb", hsl |-> c] : c \in HslGrid}
    /\ response = NoResponse

\* hslToRgb(hsl), with the colour it was given
RgbOfHsl(hsl) == [hsl |-> hsl, rgb |-> hslToRgb(hsl)]

\* const hsl = rgbToHsl(testColor); const backToRgb = hslToRgb(hsl)
ApplyRgbToHslAndBack ==
    /\ request.op = "rgbToHsl"
    /\ response = NoResponse
    /\ response' = Ok(RgbOfHsl(rgbToHsl(request.rgb)))
    /\ UNCHANGED <<inkColors, inkSearchData, fuse, process, request>>

ApplyHslToRgb ==
    /\ request.op = "hslToRgb"
    /\ response = NoResponse
    /\ response' = Ok(RgbOfHsl(request.hsl))
    /\ UNCHANGED <<inkColors, inkSearchData, fuse, process, request>>

NextHslRoundTrip == ApplyRgbToHslAndBack \/ ApplyHslToRgb

SpecHslRoundTrip == InitHslRoundTrip /\ [][NextHslRoundTrip]_vars

(***************************************************************************)
(* Specification SpecHue: the hues rgbToHsl computes for triplets and the  *)
(* hues generateHarmonyColors computes for base colours.                   *)
(***************************************************************************)
InitHue ==
    /\ inkColors = <<>>
    /\ inkSearchData = <<>>
    /\ fuse = FuseOver(inkSearchData)
    /\ process = ServingFrom(inkColors, inkSearchData)
    /\ request \in {[op |-> "rgbToHsl", rgb |-> t] : t \in Triplets}
                   \cup {[op |-> "generateHarmonyColors", baseHsl |-> b, harmony |-> r] :
                            b \in HarmonyBases \cup HslGrid,
                            r \in HarmonyRules \cup {"invalid-harmony"}}
    /\ response = NoResponse

NextHue == ApplyRgbToHslAndBack \/ ApplyGenerateHarmonyColors

SpecHue == InitHue /\ [][NextHue]_vars

(***************************************************************************)
(* Specification SpecHandler: a sequence of tool calls served one after    *)
(* another by the same handler.  An error that leaves the handler is       *)
(* handed to the transport of the SDK, which is not part of this           *)
(* repository: the model serves no call after it.                          *)
(***************************************************************************)
MaxHandlerInks == 2

\* catalog ids: all different, or one id shared by all entries; the metadata
\* collection holds id "a" twice and no entry for id "b"
HandlerIds == {InkIds, [i \in 1..Len(InkIds) |-> "a"], [i \in 1..Len(InkIds) |-> "b"]}

HandlerCatalogs ==
    {CatalogOf(ids, cs) : ids \in HandlerIds,
                          cs \in StringsOver(SearchColours, MaxHandlerInks)}

HandlerHexes == {<<"#","f","f","0","0","0","0">>, <<"#","f","f">>}

HandlerSearchArgs ==
    {[color |-> c, max_results |-> n, temperature_filter |-> f] :
        c \in HandlerHexes, n \in {Num(1), UndefinedNum}, f \in {Undefined, "cool"}}

HandlerPaletteArgs ==
    {[theme |-> t, palette_size |-> Num(2), harmony |-> h] :
        t \in { <<"V","i","b","r","a","n","t">>,
                <<"n","o","t","-","a","-","t","h","e","m","e">>,
                <<"c","o","n","s","t","r","u","c","t","o","r">>,
                <<"#","f","f","0","0","0","0">>,
                <<"#","f","f">> },
        h \in {Undefined, "complementary", "constructor"}}

MaxFuseHits == 2

\* the answers of the library search: the sequences of at most MaxFuseHits
\* different metadata entries
FuseAnswers ==
    {hits \in StringsOver(1..Len(SomeMetadata), MaxFuseHits) :
        \A i, j \in 1..Len(hits) : i # j => hits[i] # hits[j]}

HandlerNameArgs ==
    {[query |-> "first", max_results |-> n,
      searchResults |-> [i \in 1..Len(hits) |-> SomeMetadata[hits[i]]]] :
        n \in {Num(1), UndefinedNum}, hits \in FuseAnswers}

HandlerMakerArgs ==
    {[maker |-> m, max_results |-> n] :
        m \in {"Maker 1", "MAKER 2", "nobody"}, n \in {Num(1), UndefinedNum}}

InitHandler ==
    /\ inkColors \in HandlerCatalogs
    /\ inkSearchData = SomeMetadata
    /\ fuse = FuseOver(inkSearchData)
    /\ process = ServingFrom(inkColors, inkSearchData)
    /\ request = NoRequest
    /\ response = NoResponse

ServeSearchInksByColor ==
    \E args \in HandlerSearchArgs :
        /\ IF response = NoResponse THEN TRUE ELSE response.ok
        /\ CallToolRequest("search_inks_by_color", args)

ServeAnalyzeColor ==
    \E c \in HandlerHexes :
        /\ IF response = NoResponse THEN TRUE ELSE response.ok
        /\ CallToolRequest("analyze_color", [color |-> c])

ServeGetInkDetails ==
    \E id \in {"a", "b", "zz"} :
        /\ IF response = NoResponse THEN TRUE ELSE response.ok
        /\ CallToolRequest("get_ink_details", [ink_id |-> id])

ServeGetColorPalette ==
    \E args \in HandlerPaletteArgs :
        /\ IF response = NoResponse THEN TRUE ELSE response.ok
        /\ CallToolRequest("get_color_palette", args)

ServeSearchInksByName ==
    \E args \in HandlerNameArgs :
        /\ IF response = NoResponse THEN TRUE ELSE response.ok
        /\ CallToolRequest("search_inks_by_name", args)

ServeGetInksByMaker ==
    \E args \in HandlerMakerArgs :
        /\ IF response = NoResponse THEN TRUE ELSE response.ok
        /\ CallToolRequest("get_inks_by_maker", args)

ServeUnknownTool ==
    /\ IF response = NoResponse THEN TRUE ELSE response.ok
    /\ CallToolRequest("no_such_tool", [color |-> <<>>])

ServeWithoutArguments ==
    /\ IF response = NoResponse THEN TRUE ELSE response.ok
    /\ CallToolRequest("analyze_color", NoArgs)

NextHandler ==
    \/ ServeSearchInksByColor
    \/ ServeAnalyzeColor
    \/ ServeGetInkDetails
    \/ ServeGetColorPalette
    \/ ServeSearchInksByName
    \/ ServeGetInksByMaker
    \/ ServeUnknownTool
    \/ ServeWithoutArguments

SpecHandler == InitHandler /\ [][NextHandler]_vars

(***************************************************************************)
(* Specification SpecTemperature: calculateColorTemperature and            *)
(* getTemperatureCategory applied to the triplets over the channel grid.   *)
(***************************************************************************)
InitTemperature ==
    /\ inkColors = <<>>
    /\ inkSearchData = <<>>
    /\ fuse = FuseOver(inkSearchData)
    /\ process = ServingFrom(inkColors, inkSearchData)
    /\ request \in {[op |-> "calculateColorTemperature", rgb |-> t] : t \in Triplets}
    /\ response = NoResponse

\* const category = getTemperatureCategory(temp)
WithCategory(temp) == [temperature |-> temp, category |-> getTemperatureCategory(temp)]

ApplyCalculateColorTemperature ==
    /\ request.op = "calculateColorTemperature"
    /\ response = NoResponse
    /\ response' = Ok(WithCategory(calculateColorTemperature(request.rgb)))
    /\ UNCHANGED <<inkColors, inkSearchData, fuse, process, request>>

NextTemperature == ApplyCalculateColorTemperature

SpecTemperature == InitTemperature /\ [][NextTemperature]_vars

(***************************************************************************)
(* Specification SpecLoad: the process from `new InkMCPServer()` to the    *)
(* connected transport, and the calls served afterwards.  loadData runs    *)
(* inside the constructor and reads both files synchronously; an error in  *)
(* it is caught and logged, and the constructor returns.  The transport    *)
(* delivers calls to the handler only once run() has connected it.         *)
(***************************************************************************)
MaxStoredInks == 2

\* a file whose content parses to data, and a file on which fs.readFileSync
\* or JSON.parse throws
Readable(data) == [readable |-> TRUE, data |-> data]
Unreadable == [readable |-> FALSE, data |-> <<>>]

\* the rgb property of a stored entry that has none
NoTriplet == <<>>

\* a variant of bgrToRgb that keeps the stored channel order
bgrToRgbKeepsOrder(bgr) ==
    IF bgr = NoTriplet
    THEN Throw(JsError("TypeError", "undefined is not iterable", <<>>, <<>>))
    ELSE Ok(bgr)

\* const [b, g, r] = bgr; return [r, g, b]; an entry without rgb makes the
\* destructuring throw
bgrToRgb(bgr) ==
    IF bgr = NoTriplet
    THEN Throw(JsError("TypeError", "undefined is not iterable", <<>>, <<>>))
    ELSE Ok(<<bgr[3], bgr[2], bgr[1]>>)

\* rawInkColors.map(ink => ({...ink, rgb: bgrToRgb(ink.rgb)}))
ConvertStored(rawInkColors) ==
    IF \E i \in 1..Len(rawInkColors) : ~bgrToRgb(rawInkColors[i].rgb).ok
    THEN Throw(JsError("TypeError", "undefined is not iterable", <<>>, <<>>))
    ELSE Ok([i \in 1..Len(rawInkColors) |->
                [fullname |-> rawInkColors[i].fullname,
                 ink_id |-> rawInkColors[i].ink_id,
                 rgb |-> bgrToRgb(rawInkColors[i].rgb).val]])

\* stored channel triplets in the order B, G, R: a red, a blue, an orange,
\* and an entry without a triplet
StoredTriplets == {<<0, 0, 255>>, <<255, 0, 0>>, <<0, 165, 255>>, NoTriplet}

StoredCatalogs ==
    {CatalogOf(InkIds, cs) : cs \in StringsOver(StoredTriplets, MaxStoredInks)}

InitLoad ==
    /\ inkColors = <<>>
    /\ inkSearchData = <<>>
    /\ fuse = NoFuse
    /\ process \in {[pc |-> "start", files |-> [inkColors |-> c, search |-> m],
                     log |-> <<>>] :
                       c \in {Readable(cat) : cat \in StoredCatalogs} \cup {Unreadable},
                       m \in {Readable(SomeMetadata), Unreadable}}
    /\ request = NoRequest
    /\ response = NoResponse

\* lines 43-56: the Server object and the handlers; loadData() is next
Construct ==
    /\ process.pc = "start"
    /\ process' = [process EXCEPT !.pc = "loadData"]
    /\ UNCHANGED <<inkColors, inkSearchData, fuse, request, response>>

\* the catch block of loadData: the error is logged and loadData returns,
\* which ends the constructor
LoadFailed == [process EXCEPT !.pc = "constructed",
                              !.log = Append(@, "Error loading ink data:")]

\* lines 62-69: read and parse ink-colors.json, convert every entry
LoadInkColors ==
    /\ process.pc = "loadData"
    /\ IF ~process.files.inkColors.readable
       THEN process' = LoadFailed /\ UNCHANGED inkColors
       ELSE IF ~ConvertStored(process.files.inkColors.data).ok
       THEN process' = LoadFailed /\ UNCHANGED inkColors
       ELSE /\ inkColors' = ConvertStored(process.files.inkColors.data).val
            /\ process' = [process EXCEPT !.pc = "loadSearch"]
    /\ UNCHANGED <<inkSearchData, fuse, request, response>>

\* lines 71-73: read and parse search.json
LoadSearchData ==
    /\ process.pc = "loadSearch"
    /\ IF ~process.files.search.readable
       THEN process' = LoadFailed /\ UNCHANGED inkSearchData
       ELSE /\ inkSearchData' = process.files.search.data
            /\ process' = [process EXCEPT !.pc = "buildFuse"]
    /\ UNCHANGED <<inkColors, fuse, request, response>>

\* lines 75-83: the text index and the log line; the constructor returns
BuildFuse ==
    /\ process.pc = "buildFuse"
    /\ fuse' = FuseOver(inkSearchData)
    /\ process' = [process EXCEPT !.pc = "constructed", !.log = Append(@, "Loaded")]
    /\ UNCHANGED <<inkColors, inkSearchData, request, response>>

\* lines 730-737: server.run() connects the transport
Run ==
    /\ process.pc = "constructed"
    /\ process' = [process EXCEPT !.pc = "connected"]
    /\ UNCHANGED <<inkColors, inkSearchData, fuse, request, response>>

LoadedColourArgs ==
    {[color |-> c, max_results |-> n, temperature_filter |-> Undefined] :
        c \in {<<"#","f","f","0","0","0","0">>, <<"#","f","f">>},
        n \in {Num(1), UndefinedNum}}

LoadedNameArgs ==
    {[query |-> "first", max_results |-> UndefinedNum, searchResults |-> hits] :
        hits \in {<<>>, <<SomeMetadata[3], SomeMetadata[2]>>}}

ServeLoadedSearchByColor ==
    \E args \in LoadedColourArgs :
        /\ process.pc = "connected"
        /\ IF response = NoResponse THEN TRUE ELSE response.ok
        /\ CallToolRequest("search_inks_by_color", args)

ServeLoadedSearchByName ==
    \E args \in LoadedNameArgs :
        /\ process.pc = "connected"
        /\ IF response = NoResponse THEN TRUE ELSE response.ok
        /\ CallToolRequest("search_inks_by_name", args)

ServeLoadedInkDetails ==
    \E id \in {"a", "b"} :
        /\ process.pc = "connected"
        /\ IF response = NoResponse THEN TRUE ELSE response.ok
        /\ CallToolRequest("get_ink_details", [ink_id |-> id])

ServeLoadedInksByMaker ==
    /\ process.pc = "connected"
    /\ IF response = NoResponse THEN TRUE ELSE response.ok
    /\ CallToolRequest("get_inks_by_maker", [maker |-> "Maker 1", max_results |-> UndefinedNum])

ServeLoadedPalette ==
    /\ process.pc = "connected"
    /\ IF response = NoResponse THEN TRUE ELSE response.ok
    /\ CallToolRequest("get_color_palette",
                       [theme |-> <<"s","u","n","s","e","t">>, palette_size |-> Num(2),
                        harmony |-> Undefined])

NextLoad ==
    \/ Construct
    \/ LoadInkColors
    \/ LoadSearchData
    \/ BuildFuse
    \/ Run
    \/ ServeLoadedSearchByColor
    \/ ServeLoadedSearchByName
    \/ ServeLoadedInkDetails
    \/ ServeLoadedInksByMaker
    \/ ServeLoadedPalette

SpecLoad == InitLoad /\ [][NextLoad]_vars

(***************************************************************************)
(* Specification SpecConcurrent: several calls in flight at once.  Here    *)
(* `request` and `response` hold one entry per call.  The handler is an    *)
(* async function: it runs from its start to `return await <tool>(...)`    *)
(* without interruption, the body of the tool included (the tools          *)
(* modelled here contain no await), and gives way to other calls at the    *)
(* await; it resumes later with the result, or in its catch block with the *)
(* error.  The calls resume in any order.                                  *)
(***************************************************************************)
MaxCalls == 2

CallIds == 1..MaxCalls

\* the handler of this call is suspended at its await with the outcome of
\* the tool
Awaiting(outcome) == [awaiting |-> outcome]

\* the ink ids chosen by the palette builds of the other calls, as far as
\* those builds have run
ChosenByOthers(c) ==
    UNION {IF "awaiting" \in DOMAIN response[d]
           THEN IF response[d].awaiting.ok
                   /\ "inks" \in DOMAIN response[d].awaiting.val.content[1].text.json
                THEN {response[d].awaiting.val.content[1].text.json.inks[i].ink.ink_id :
                        i \in 1..Len(response[d].awaiting.val.content[1].text.json.inks)}
                ELSE {}
           ELSE {} : d \in CallIds \ {c}}

\* a variant in which the set of chosen ids is shared by the builds
UsedAtStartShared(c) == ChosenByOthers(c)

\* line 646: const usedInkIds = new Set<string>(), a local of the invocation
UsedAtStart(c) == {}

\* getColorPalette as run by call c
PaletteOfCall(c, theme, paletteSize, targets) ==
    IF ~targets.ok THEN targets
    ELSE PaletteAnswer(theme,
             PaletteLoop(0, MathMin(paletteSize, targets.val.length),
                         targets.val, <<>>, UsedAtStart(c)))

\* the switch of the handler as run by call c
DispatchCall(c, name, args) ==
    IF name = "get_color_palette"
    THEN PaletteOfCall(c, args.theme, NumOr(args.palette_size, DefaultPaletteSize),
                       ResolveTargets(args.theme, args.harmony))
    ELSE Dispatch(name, args)

\* catalogs of three inks, with different ids and with a shared id
ConcurrentCatalogs ==
    { CatalogOf(InkIds, <<<<255, 0, 0>>, <<0, 0, 255>>, <<255, 0, 0>>>>),
      CatalogOf(InkIds, <<<<0, 0, 255>>, <<255, 0, 0>>, <<0, 0, 0>>>>),
      CatalogOf(SharedIds, <<<<0, 0, 0>>, <<255, 0, 0>>, <<0, 0, 255>>>>) }

ConcurrentCalls ==
    { [name |-> "get_color_palette",
       args |-> [theme |-> <<"V","i","b","r","a","n","t">>, palette_size |-> Num(2),
                 harmony |-> Undefined]],
      [name |-> "get_color_palette",
       args |-> [theme |-> <<"#","f","f","0","0","0","0">>, palette_size |-> Num(2),
                 harmony |-> "complementary"]],
      [name |-> "get_color_palette",
       args |-> [theme |-> <<"n","o","t","-","a","-","t","h","e","m","e">>,
                 palette_size |-> Num(2), harmony |-> Undefined]],
      [name |-> "search_inks_by_color",
       args |-> [color |-> <<"#","f","f","0","0","0","0">>, max_results |-> Num(2),
                 temperature_filter |-> Undefined]],
      [name |-> "get_ink_details", args |-> [ink_id |-> "zz"]],
      [name |-> "analyze_color", args |-> NoArgs] }

InitConcurrent ==
    /\ inkColors \in ConcurrentCatalogs
    /\ inkSearchData = SomeMetadata
    /\ fuse = FuseOver(inkSearchData)
    /\ process = ServingFrom(inkColors, inkSearchData)
    /\ request = [c \in CallIds |-> NoRequest]
    /\ response = [c \in CallIds |-> NoResponse]

\* lines 235-283: the handler of call c from its start to its await; a call
\* without arguments is rejected before the try block
StartCall ==
    \E c \in CallIds, call \in ConcurrentCalls :
        /\ request[c] = NoRequest
        /\ request' = [request EXCEPT
                          ![c] = [op |-> "tools/call", name |-> call.name,
                                  args |-> call.args]]
        /\ response' = [response EXCEPT
                          ![c] = IF call.args = NoArgs
                                 THEN Throw(JsError("Error", "Missing arguments",
                                                    <<>>, <<>>))
                                 ELSE Awaiting(DispatchCall(c, call.name, call.args))]
        /\ inkColors' = CatalogAfter(call.name, call.args)
        /\ UNCHANGED <<inkSearchData, fuse, process>>

\* lines 243-294: the handler of call c resumes: it returns the result of
\* the tool, or the text of the caught error
ResumeCall ==
    \E c \in CallIds :
        /\ "awaiting" \in DOMAIN response[c]
        /\ response' = [response EXCEPT ![c] = CaughtAnswer(response[c].awaiting)]
        /\ UNCHANGED <<inkColors, inkSearchData, fuse, process, request>>

NextConcurrent ==
    \/ StartCall
    \/ ResumeCall

SpecConcurrent == InitConcurrent /\ [][NextConcurrent]_vars

(***************************************************************************)
(* Properties.                                                             *)
(***************************************************************************)
\* a valid hex colour: an optional '#' followed by exactly 6 hexadecimal digits
IsValidHex(s) ==
    LET body == IF s # <<>> /\ s[1] = "#" THEN SubSeq(s, 2, Len(s)) ELSE s
    IN  Len(body) = 6 /\ \A i \in 1..6 : body[i] \in HexDigitChars

\* C4: hexToRgb fails with an invalid-format error for every string that,
\* after removing one optional leading '#', is not exactly 6 hexadecimal
\* digits (wrong length, or a non-hexadecimal character).
C4_InvalidHexRejected ==
    (request.op = "hexToRgb" /\ response # NoResponse /\ ~IsValidHex(request.hex))
        => ~response.ok

\* C3: generateHarmonyColors fails with an unknown-harmony-rule error for
\* every rule string other than complementary, analogous, triadic and
\* split-complementary; it never falls back to some other set of colours.
C3_UnknownRuleRejected ==
    (request.op = "generateHarmonyColors" /\ response # NoResponse
        /\ request.harmony \notin HarmonyRules)
        => ~response.ok

\* p orders the indices of catalog cat by ascending distance to target,
\* equal distances in catalog order
IsNearestOrder(p, target, cat) ==
    \A i, j \in 1..Len(cat) :
        i < j =>
            LET di == calculateColorDistance(target, cat[p[i]].rgb)
                dj == calculateColorDistance(target, cat[p[j]].rgb)
            IN  di < dj \/ (di = dj /\ p[i] < p[j])

\* C9: for a positive integer limit N, findClosestInks returns exactly the
\* first min(N, catalog length) entries of the catalog sorted by ascending
\* distance to the target, entries of equal distance in catalog order, each
\* with its distance; hence the returned distances are non-decreasing.
C9_NearestSortedPrefix ==
    (request.op = "findClosestInks" /\ response # NoResponse
        /\ request.maxResults.k = "int" /\ request.maxResults.v > 0)
        =>
        LET out == response.val
            n == Len(inkColors)
            m == IF request.maxResults.v < n THEN request.maxResults.v ELSE n
        IN  /\ Len(out) = m
            /\ \A i \in 1..(m - 1) : out[i].distance <= out[i + 1].distance
            /\ \E p \in Permutations(1..n) :
                /\ IsNearestOrder(p, request.targetRgb, inkColors)
                /\ \A i \in 1..m :
                    /\ out[i].fullname = inkColors[p[i]].fullname
                    /\ out[i].ink_id = inkColors[p[i]].ink_id
                    /\ out[i].rgb = inkColors[p[i]].rgb
                    /\ out[i].distance =
                         calculateColorDistance(request.targetRgb, inkColors[p[i]].rgb)

\* C9 witness: a limit below the catalog length cuts a catalog that holds two
\* entries at the same distance and an entry out of distance order
C9_Witness ==
    /\ request.op = "findClosestInks" /\ response # NoResponse
    /\ request.maxResults.k = "int" /\ request.maxResults.v > 0
    /\ request.maxResults.v < Len(inkColors)
    /\ Len(response.val) >= 2
    /\ response.val[1].distance = response.val[2].distance
    /\ response.val[1].rgb # response.val[2].rgb
    /\ \E i \in 1..(Len(inkColors) - 1) :
         calculateColorDistance(request.targetRgb, inkColors[i].rgb)
           > calculateColorDistance(request.targetRgb, inkColors[i + 1].rgb)

\* the call of tool `name` has been answered
Answered(name) ==
    /\ response # NoResponse
    /\ request.op = "tools/call"
    /\ request.name = name

\* the text item of the answer
AnswerText == response.val.content[1].text

\* the answer is the text of a caught error
IsErrorAnswer == response.ok /\ "error" \in DOMAIN AnswerText

\* the answer is a palette
IsPaletteAnswer == response.ok /\ "json" \in DOMAIN AnswerText

PaletteInks == AnswerText.json.inks

ThemeNameSet == {ThemeNames[i] : i \in 1..Len(ThemeNames)}

\* the first min(size, number of targets) targets of the answered request,
\* as a count
ConsideredTargets ==
    LET targets == ResolveTargets(request.args.theme, request.args.harmony)
        bound == MathMin(NumOr(request.args.palette_size, DefaultPaletteSize),
                         targets.val.length)
    IN  IF targets.ok /\ bound.k = "int" /\ bound.v > 0 THEN bound.v ELSE 0

\* the square of the Euclidean distance of two colours
SquaredEuclid(c1, c2) ==
    (c1[1] - c2[1]) * (c1[1] - c2[1]) + (c1[2] - c2[2]) * (c1[2] - c2[2])
        + (c1[3] - c2[3]) * (c1[3] - c2[3])

\* C1: the palette get_color_palette returns holds no ink id twice, whatever
\* the catalog, the theme specification and the size, also when several
\* targets have the same nearest catalog entry.
C1_NoDuplicateInkIds ==
    (Answered("get_color_palette") /\ IsPaletteAnswer)
        => \A i, j \in 1..Len(PaletteInks) :
              i < j => PaletteInks[i].ink.ink_id # PaletteInks[j].ink.ink_id

\* C1 witness: two equal targets against a catalog in which two entries share
\* an id, answered with two inks
C1_Witness ==
    /\ Answered("get_color_palette") /\ IsPaletteAnswer
    /\ Len(PaletteInks) >= 2
    /\ \E a, b \in 1..Len(inkColors) : a # b /\ inkColors[a].ink_id = inkColors[b].ink_id
    /\ LET targets == ResolveTargets(request.args.theme, request.args.harmony).val.items
       IN  Len(targets) >= 2 /\ targets[1] = targets[2]

\* C2: without a harmony rule, a theme that matches no built-in name
\* (case-insensitively), does not start with '#' and holds no comma is
\* answered with the unknown-theme error listing every built-in theme name,
\* never with a palette.
C2_UnknownThemeRejected ==
    (Answered("get_color_palette")
        /\ ~StrTruthy(request.args.harmony)
        /\ ToLowerCase(request.args.theme) \notin ThemeNameSet
        /\ ~(request.args.theme # <<>> /\ Head(request.args.theme) = "#")
        /\ \A i \in 1..Len(request.args.theme) : request.args.theme[i] # ",")
        => /\ IsErrorAnswer
           /\ AnswerText.error.message = "Unknown theme: <arg>. Available themes are: <list>"
           /\ AnswerText.error.list = ThemeNames

\* C5: with a harmony rule, a theme that is not a valid hex colour is
\* answered with the invalid-base-colour error and no palette.
C5_InvalidBaseColourRejected ==
    (Answered("get_color_palette")
        /\ StrTruthy(request.args.harmony)
        /\ ~IsValidHex(request.args.theme))
        => /\ IsErrorAnswer
           /\ AnswerText.error.message =
                "Invalid base color for harmony rule. Please use a single valid hex code."

\* the colour a valid hex colour string denotes
HexColourValue(s) ==
    LET body == IF s[1] = "#" THEN SubSeq(s, 2, Len(s)) ELSE s
    IN  <<16 * HexDigitValue(body[1]) + HexDigitValue(body[2]),
          16 * HexDigitValue(body[3]) + HexDigitValue(body[4]),
          16 * HexDigitValue(body[5]) + HexDigitValue(body[6])>>

\* the comma-separated, trimmed segments of the requested theme
TrimmedSegments ==
    LET segments == SplitOnComma(request.args.theme, <<>>)
    IN  [i \in 1..Len(segments) |-> Trim(segments[i])]

\* C6: a custom palette (no harmony rule, no built-in name, a leading '#' or
\* a comma) is answered with the invalid-custom-palette error when some
\* trimmed segment is not a valid hex colour; otherwise its targets are the
\* parsed segments in written order.
C6_CustomPaletteParsed ==
    (Answered("get_color_palette")
        /\ ~StrTruthy(request.args.harmony)
        /\ ToLowerCase(request.args.theme) \notin ThemeNameSet
        /\ \/ (request.args.theme # <<>> /\ Head(request.args.theme) = "#")
           \/ \E i \in 1..Len(request.args.theme) : request.args.theme[i] = ",")
        => IF \E i \in 1..Len(TrimmedSegments) : ~IsValidHex(TrimmedSegments[i])
           THEN /\ IsErrorAnswer
                /\ AnswerText.error.message =
                     "Invalid custom palette format. Please use a comma-separated list of hex codes"
           ELSE LET targets == ResolveTargets(request.args.theme, request.args.harmony)
                IN  /\ targets.ok
                    /\ targets.val.items =
                         [i \in 1..Len(TrimmedSegments) |-> HexColourValue(TrimmedSegments[i])]

\* C7: a considered target gets no ink only when every catalog id is already
\* chosen; hence the palette holds as many inks as there are considered
\* targets, or as there are different ids in the catalog when these are fewer.
C7_InkWhileUnusedRemain ==
    (Answered("get_color_palette") /\ IsPaletteAnswer)
        => LET ids == {inkColors[i].ink_id : i \in 1..Len(inkColors)}
           IN  Len(PaletteInks) =
                 IF ConsideredTargets < Cardinality(ids)
                 THEN ConsideredTargets ELSE Cardinality(ids)

\* the k-th smallest element of the set S of integers
KthSmallest(S, k) == CHOOSE x \in S : Cardinality({y \in S : y < x}) = k - 1

\* C8: every ink of the palette is, for the target it was placed for, at the
\* smallest distance among the catalog entries whose id no earlier ink of the
\* palette has, and reports the Euclidean distance to that target.  The
\* targets served are some of the targets, in order.
C8_NearestUnusedPlaced ==
    (Answered("get_color_palette") /\ IsPaletteAnswer)
        => LET targets == ResolveTargets(request.args.theme, request.args.harmony).val.items
               n == Len(PaletteInks)
           IN  \E S \in SUBSET (1..Len(targets)) :
                 /\ Cardinality(S) = n
                 /\ \A k \in 1..n :
                      LET target == targets[KthSmallest(S, k)]
                          placed == PaletteInks[k].ink
                          earlier == {PaletteInks[j].ink.ink_id : j \in 1..(k - 1)}
                      IN  /\ \E e \in 1..Len(inkColors) :
                                /\ inkColors[e].ink_id = placed.ink_id
                                /\ inkColors[e].rgb = placed.rgb
                                /\ inkColors[e].fullname = placed.fullname
                          /\ placed.ink_id \notin earlier
                          /\ PaletteInks[k].distance = SquaredEuclid(target, placed.rgb)
                          /\ \A e \in 1..Len(inkColors) :
                                inkColors[e].ink_id \notin earlier
                                  => SquaredEuclid(target, inkColors[e].rgb)
                                       >= PaletteInks[k].distance

\* C8 witness: the second of two equal targets is served by an entry farther
\* away than the first one's, the nearest id being taken
C8_Witness ==
    /\ Answered("get_color_palette") /\ IsPaletteAnswer
    /\ Len(PaletteInks) >= 2
    /\ PaletteInks[1].distance < PaletteInks[2].distance
    /\ LET targets == ResolveTargets(request.args.theme, request.args.harmony).val.items
       IN  Len(targets) >= 2 /\ targets[1] = targets[2]

\* the limit is an integer below 1, NaN or infinite
IsBadLimit(n) == (n.k = "int" /\ n.v <= 0) \/ n.k \in {"nan", "inf"}

\* C10: a search_inks_by_color call whose max_results is not positive or not
\* finite is answered with an error, or with the answer the default limit
\* gives; never with results computed from that limit.
C10_BadLimitRejectedOrDefaulted ==
    (Answered("search_inks_by_color") /\ IsBadLimit(request.args.max_results))
        => \/ ~response.ok
           \/ IsErrorAnswer
           \/ response = CallTool("search_inks_by_color",
                                  [request.args EXCEPT !.max_results = UndefinedNum])

\* C11: a get_color_palette call whose palette_size is not positive or not
\* finite is answered with an error, never with a palette.
C11_BadSizeRejected ==
    (Answered("get_color_palette") /\ IsBadLimit(request.args.palette_size))
        => IsErrorAnswer

\* a palette size the tool accepts: a positive integer, or none (the default)
IsValidSize(n) == n.k = "undefined" \/ (n.k = "int" /\ n.v > 0)

\* the smallest of three integers
MinOf3(a, b, c) ==
    IF a <= b /\ a <= c THEN a ELSE IF b <= c THEN b ELSE c

\* the inks are the inks of a subsequence of the targets, in the same order:
\* each ink carries the distance to its own target
RECURSIVE KeepsTargetOrder(_, _)
KeepsTargetOrder(inks, targets) ==
    IF inks = <<>> THEN TRUE
    ELSE IF targets = <<>> THEN FALSE
    ELSE IF Head(inks).distance = SquaredEuclid(Head(targets), Head(inks).ink.rgb)
    THEN KeepsTargetOrder(Tail(inks), Tail(targets))
    ELSE KeepsTargetOrder(inks, Tail(targets))

\* the request was answered, its size is valid and its theme specification
\* resolved to the list of targets
ResolvedTo(targets) ==
    /\ Answered("get_color_palette")
    /\ IsValidSize(request.args.palette_size)
    /\ targets.ok
    /\ targets.val.length = Num(Len(targets.val.items))

RequestedSize == NumOr(request.args.palette_size, DefaultPaletteSize).v

PaletteWithin(targets) ==
    /\ IsPaletteAnswer
    /\ Len(PaletteInks) <= MinOf3(RequestedSize, Len(targets), Len(inkColors))
    /\ KeepsTargetOrder(PaletteInks, targets)

\* C12: for a valid size and a theme specification that resolved to a list of
\* targets, get_color_palette answers with a palette, never with an error,
\* also when the catalog is too small; the palette has at most min(size,
\* number of targets, number of catalog entries) inks, and its inks follow
\* the order of the targets they were chosen for.
C12_OrderKeptAndShortPaletteSucceeds ==
    ResolvedTo(ResolveTargets(request.args.theme, request.args.harmony))
        => PaletteWithin(ResolveTargets(request.args.theme,
                                        request.args.harmony).val.items)

\* C12 witness: a catalog of one ink, the complementary harmony of #ff0000
\* (two targets) and a size of at least 2, answered with exactly one ink
C12_Witness ==
    /\ Answered("get_color_palette") /\ IsPaletteAnswer
    /\ Len(inkColors) = 1
    /\ request.args.theme = <<"#","f","f","0","0","0","0">>
    /\ request.args.harmony = "complementary"
    /\ request.args.palette_size.k = "int" /\ request.args.palette_size.v >= 2
    /\ Len(PaletteInks) = 1

\* C12 second witness: a palette of two inks chosen for two different targets
C12_WitnessTwoTargets ==
    /\ Answered("get_color_palette") /\ IsPaletteAnswer
    /\ IsValidSize(request.args.palette_size)
    /\ Len(PaletteInks) >= 2
    /\ PaletteInks[1].distance # PaletteInks[2].distance

\* the function named op was applied to the request's triplet
Applied(op) == request.op = op /\ response # NoResponse

\* every two channels of the triplet differ by less than d
ChannelsWithin(rgb, d) == \A i, j \in 1..3 : rgb[i] - rgb[j] < d

C14_NeverMixed ==
    Applied("getColorFamily") => response.val # "mixed"

\* two channels share the largest value of the triplet and the third is at
\* least 22 below it
TiedLargest(rgb) ==
    \E i, j, k \in 1..3 :
        /\ i # j /\ i # k /\ j # k
        /\ rgb[i] = rgb[j]
        /\ rgb[i] - rgb[k] >= 22

\* two channels above 150 and the third below 100
SecondaryBlend(rgb) ==
    \E i, j, k \in 1..3 :
        /\ i # j /\ i # k /\ j # k
        /\ rgb[i] > 150 /\ rgb[j] > 150 /\ rgb[k] < 100

\* C14, amended: getColorFamily answers "mixed" exactly for the triplets in
\* which two channels share the largest value, the third is at least 22
\* below it, and the triplet is no secondary blend; a triplet with three
\* equal channels is gray.
C14_MixedIffTiedLargest ==
    Applied("getColorFamily")
        => /\ (response.val = "mixed")
                <=> (TiedLargest(request.rgb) /\ ~SecondaryBlend(request.rgb))
           /\ (request.rgb[1] = request.rgb[2] /\ request.rgb[2] = request.rgb[3])
                => response.val = "gray"

\* C14 witness: a triplet whose red and green channels share the largest
\* value, classified mixed
C14_Witness ==
    /\ Applied("getColorFamily")
    /\ request.rgb[1] = request.rgb[2]
    /\ request.rgb[1] - request.rgb[3] >= 22
    /\ response.val = "mixed"

\* the brightness prefix, from the sum of the channels: a mean below 85 is a
\* sum below 255, a mean above 170 a sum above 510
BrightnessPrefix(sum) ==
    IF sum < 255 THEN <<"d","a","r","k"," ">>
    ELSE IF sum > 510 THEN <<"l","i","g","h","t"," ">> ELSE <<>>

SaturationPrefix(rgb) ==
    IF ChannelsWithin(rgb, 30) THEN <<"m","u","t","e","d"," ">>
    ELSE IF ~ChannelsWithin(rgb, 151) THEN <<"v","i","b","r","a","n","t"," ">>
    ELSE <<>>

LowerHexDigits == {LowerHex[i] : i \in 1..16}

\* '#' followed by exactly 6 lowercase hexadecimal digits
IsLowerHexColour(hex) ==
    /\ Len(hex) = 7
    /\ hex[1] = "#"
    /\ \A i \in 2..7 : hex[i] \in LowerHexDigits

C16_WitnessHex ==
    /\ Applied("hexToRgb")
    /\ request.hex = <<"0","A","f","F","C","3">>
    /\ response.val.hex = <<"#","0","a","f","f","c","3">>

\* every channel is an integer in [0,255]
IsChannelTriplet(rgb) == \A i \in 1..3 : rgb[i] \in 0..255

\* the triplets differ by at most d in every channel
ChannelsNear(a, b, d) == \A i \in 1..3 : a[i] - b[i] <= d /\ b[i] - a[i] <= d

\* C17: hslToRgb of rgbToHsl of a triplet differs from the triplet by at most
\* 1 in every channel, every channel hslToRgb returns is an integer in
\* [0,255], and a triplet with three equal channels has hue 0 and
\* saturation 0.
C17_HslRoundTrip ==
    /\ Applied("rgbToHsl")
         => /\ ChannelsNear(response.val.rgb, request.rgb, 1)
            /\ IsChannelTriplet(response.val.rgb)
            /\ (request.rgb[1] = request.rgb[2] /\ request.rgb[2] = request.rgb[3])
                 => (response.val.hsl[1] = RInt(0) /\ response.val.hsl[2] = RInt(0))
    /\ Applied("hslToRgb") => IsChannelTriplet(response.val.rgb)

\* C17 witness: a triplet with three different channels and a lightness
\* above one half, converted to a chromatic HSL colour and back
C17_Witness ==
    /\ Applied("rgbToHsl")
    /\ request.rgb = <<255, 170, 204>>
    /\ response.val.hsl[2] # RInt(0)
    /\ RLt(Rat(1, 2), response.val.hsl[3])
    /\ response.val.rgb = request.rgb

\* C17 second witness: a gray triplet, converted to hue 0 and saturation 0
C17_WitnessGray ==
    /\ Applied("rgbToHsl")
    /\ request.rgb = <<100, 100, 100>>
    /\ response.val.hsl[1] = RInt(0) /\ response.val.hsl[2] = RInt(0)
    /\ response.val.rgb = request.rgb

\* the offsets of a harmony rule, in table order
RuleOffsets(harmony) ==
    CASE harmony = "complementary" -> <<0, 180>>
      [] harmony = "analogous" -> <<0, 30, 330>>
      [] harmony = "triadic" -> <<0, 120, 240>>
      [] harmony = "split-complementary" -> <<0, 150, 210>>

\* h + k modulo 360, for a hue h in [0,360) and an offset k in [0,360)
HuePlus(h, k) ==
    IF RLt(RAdd(h, RInt(k)), RInt(360)) THEN RAdd(h, RInt(k))
    ELSE RSub(RAdd(h, RInt(k)), RInt(360))

\* the colours are the base turned by the offsets, in order
IsHarmonyOf(colours, baseHsl, offsets) ==
    /\ Len(colours) = Len(offsets)
    /\ \A i \in 1..Len(offsets) :
          colours[i] = <<HuePlus(baseHsl[1], offsets[i]), baseHsl[2], baseHsl[3]>>

\* C18: for each of the four harmony rules generateHarmonyColors returns the
\* base hue followed by the base hue plus the rule's offsets modulo 360, in
\* table order (complementary 180; analogous 30, 330; triadic 120, 240;
\* split-complementary 150, 210), every entry with the saturation and the
\* lightness of the base; the first entry is the base colour.
C18_HarmonyOrderAndOffsets ==
    (Applied("generateHarmonyColors") /\ request.harmony \in HarmonyRules)
        => /\ response.ok
           /\ IsHarmonyOf(response.val, request.baseHsl, RuleOffsets(request.harmony))
           /\ response.val[1] = request.baseHsl

\* C18 witness: the analogous colours of a base of hue 330, whose second hue
\* wraps to 0
C18_Witness ==
    /\ Applied("generateHarmonyColors")
    /\ request.harmony = "analogous"
    /\ request.baseHsl[1] = RInt(330)
    /\ response.ok
    /\ response.val[2][1] = RInt(0)
    /\ response.val[3][1] = RInt(300)

\* a hue in [0,360)
IsHue(h) == ~RLt(h, RInt(0)) /\ RLt(h, RInt(360))

\* C19: the hue rgbToHsl computes for a triplet lies in [0,360), a negative
\* intermediate value being wrapped, and every hue generateHarmonyColors
\* returns for a base colour lies in [0,360).
C19_HuesInRange ==
    /\ Applied("rgbToHsl") => IsHue(response.val.hsl[1])
    /\ (Applied("generateHarmonyColors") /\ response.ok)
          => \A i \in 1..Len(response.val) : IsHue(response.val[i][1])

\* C19 witness: a triplet whose red channel is the largest and whose green
\* channel is below the blue one, so that (g - b) / d is negative, converted
\* to a hue of at least 300
C19_Witness ==
    /\ Applied("rgbToHsl")
    /\ request.rgb[1] > request.rgb[3] /\ request.rgb[3] > request.rgb[2]
    /\ ~RLt(response.val.hsl[1], RInt(300))

\* C19 second witness: a harmony whose hue arithmetic passes 360
C19_WitnessHarmony ==
    /\ Applied("generateHarmonyColors") /\ response.ok
    /\ \E i \in 1..Len(response.val) :
          RLt(response.val[i][1], request.baseHsl[1])

\* a tool call that carries an arguments object was handled
HandledWithArguments ==
    /\ response # NoResponse
    /\ request.op = "tools/call"
    /\ request.args # NoArgs

\* the answer is exactly one text item that starts with "Error: "
IsErrorText ==
    /\ response.ok
    /\ Len(response.val.content) = 1
    /\ response.val.content[1].type = "text"
    /\ "prefix" \in DOMAIN response.val.content[1].text
    /\ response.val.content[1].text.prefix = "Error: "

\* a colour string that is not 6 characters after an optional '#'
IsShortHex(hex) == Len(StripHash(hex)) # 6

\* requests whose execution raises an error: an unknown tool name, an ink id
\* no catalog entry has, a malformed colour, an unknown theme, a malformed
\* harmony base, and a harmony name that makes the table lookup fail
RaisesError ==
    \/ request.name = "no_such_tool"
    \/ /\ request.name = "get_ink_details"
       /\ \A i \in 1..Len(inkColors) : inkColors[i].ink_id # request.args.ink_id
    \/ /\ request.name \in {"search_inks_by_color", "analyze_color"}
       /\ IsShortHex(request.args.color)
    \/ /\ request.name = "get_color_palette"
       /\ \/ /\ request.args.harmony = Undefined
             /\ request.args.theme = <<"n","o","t","-","a","-","t","h","e","m","e">>
          \/ /\ request.args.harmony # Undefined
             /\ IsShortHex(request.args.theme)
          \/ /\ request.args.harmony = "constructor"
             /\ ~IsShortHex(request.args.theme)

\* C20: a tool call that carries an arguments object never ends with an error
\* leaving the handler; when its execution raises an error (unknown tool,
\* unknown ink id, malformed colour, unknown theme, invalid harmony base,
\* failed lookup) the answer is exactly one text item starting with
\* "Error: ", and after such an answer the handler serves further calls.
C20_ErrorsCaughtAtHandler ==
    HandledWithArguments
        => /\ response.ok
           /\ RaisesError => IsErrorText
           /\ IsErrorText => ENABLED NextHandler

\* C20 witness: a call of get_ink_details for an id no catalog entry has,
\* answered with the error text, with further calls enabled
C20_Witness ==
    /\ HandledWithArguments
    /\ request.name = "get_ink_details"
    /\ RaisesError
    /\ IsErrorText
    /\ response.val.content[1].text.error.message = "Ink not found: <arg>"
    /\ ENABLED NextHandler

\* getColorFamily was applied to the triplet rgb
FamilyApplied(rgb) == Applied("getColorFamily") /\ request.rgb = rgb

\* C24: getColorFamily answers the family its doc comment gives for each
\* example: [255,0,0] red, [128,128,128] gray, [255,165,0] orange.
C24_DocumentedFamilies ==
    /\ FamilyApplied(<<255, 0, 0>>) => response.val = "red"
    /\ FamilyApplied(<<128, 128, 128>>) => response.val = "gray"
    /\ FamilyApplied(<<255, 165, 0>>) => response.val = "orange"

\* getColorDescription was applied to the triplet rgb
DescriptionApplied(rgb) == Applied("getColorDescription") /\ request.rgb = rgb

\* C25: getColorDescription answers the description its doc comment gives for
\* each example: [255,0,0] "vibrant red", [64,64,64] "dark gray",
\* [255,200,200] "light red".
C25_DocumentedDescriptions ==
    /\ DescriptionApplied(<<255, 0, 0>>)
         => response.val = <<"v","i","b","r","a","n","t"," ","r","e","d">>
    /\ DescriptionApplied(<<64, 64, 64>>)
         => response.val = <<"d","a","r","k"," ","g","r","a","y">>
    /\ DescriptionApplied(<<255, 200, 200>>)
         => response.val = <<"l","i","g","h","t"," ","r","e","d">>

\* C26: getColorFamily answers the dominant channel for a subtly tinted
\* near-gray: [85,95,80] green, [95,80,85] red, [90,92,100] and [80,85,105]
\* blue, while [100,100,100] and [120,118,122] are gray.
C26_NearGraysByDominantChannel ==
    /\ FamilyApplied(<<85, 95, 80>>) => response.val = "green"
    /\ FamilyApplied(<<95, 80, 85>>) => response.val = "red"
    /\ FamilyApplied(<<90, 92, 100>>) => response.val = "blue"
    /\ FamilyApplied(<<80, 85, 105>>) => response.val = "blue"
    /\ FamilyApplied(<<100, 100, 100>>) => response.val = "gray"
    /\ FamilyApplied(<<120, 118, 122>>) => response.val = "gray"

\* a temperature between lo and hi kelvin, both included
KelvinWithin(temp, lo, hi) == ~RLt(temp, RInt(lo)) /\ ~RLt(RInt(hi), temp)

\* C27: calculateColorTemperature answers a value between 2000 and 8000
\* kelvin for every triplet, and a triplet with max - min < 15 is in the
\* neutral category: its temperature is neither below 3500 nor above 5000.
C27_TemperatureInRange ==
    Applied("calculateColorTemperature")
        => /\ KelvinWithin(response.val.temperature, 2000, 8000)
           /\ ChannelsWithin(request.rgb, 15)
                => /\ response.val.category = "neutral"
                   /\ KelvinWithin(response.val.temperature, 3500, 5000)

\* C27 witness: the near-gray [255,255,255], the lightest one, answered with
\* 4632.5 kelvin and the neutral category
C27_Witness ==
    /\ Applied("calculateColorTemperature")
    /\ request.rgb = <<255, 255, 255>>
    /\ response.val.temperature = Rat(9265, 2)
    /\ response.val.category = "neutral"

\* C27 second witness: a chromatic triplet in the cool category
C27_WitnessCool ==
    /\ Applied("calculateColorTemperature")
    /\ ~ChannelsWithin(request.rgb, 15)
    /\ response.val.category = "cool"

\* the theme string is a built-in theme name, in any letter case
IsBuiltInTheme(theme) == ToLowerCase(theme) \in ThemeNameSet

\* the theme string is a comma-separated list
IsCommaList(theme) == \E i \in 1..Len(theme) : theme[i] = ","

\* the targets of the table entry of a built-in theme name
BuiltInTargets(theme) == ThemeTargets[IndexOf(ThemeNames, ToLowerCase(theme))]

\* the answer is the invalid-harmony-base error
IsInvalidBaseAnswer ==
    /\ IsErrorAnswer
    /\ AnswerText.error.message =
         "Invalid base color for harmony rule. Please use a single valid hex code."

\* C28: with a harmony rule the targets come from the harmony generator
\* applied to the theme string read as one hex colour, and the theme table
\* and the comma-list parsing are not consulted: a built-in theme name or a
\* comma-separated list combined with a harmony rule is rejected, and the
\* complementary harmony of #ff0000 has the targets red and cyan.  Without a
\* harmony rule a built-in theme name is answered from the theme table.
C28_ThemeResolutionPrecedence ==
    Answered("get_color_palette")
        => /\ (StrTruthy(request.args.harmony)
                 /\ (IsBuiltInTheme(request.args.theme) \/ IsCommaList(request.args.theme)))
                => IsInvalidBaseAnswer
           /\ (request.args.harmony = "complementary"
                 /\ request.args.theme = <<"#","f","f","0","0","0","0">>
                 /\ IsValidSize(request.args.palette_size))
                => /\ IsPaletteAnswer
                   /\ KeepsTargetOrder(PaletteInks, <<<<255, 0, 0>>, <<0, 255, 255>>>>)
           /\ (~StrTruthy(request.args.harmony)
                 /\ IsBuiltInTheme(request.args.theme)
                 /\ IsValidSize(request.args.palette_size))
                => /\ IsPaletteAnswer
                   /\ KeepsTargetOrder(PaletteInks, BuiltInTargets(request.args.theme))

\* the search was answered with results for a temperature filter and a
\* positive limit
FilteredSearchAnswered ==
    /\ Answered("search_inks_by_color")
    /\ IsPaletteAnswer
    /\ request.args.temperature_filter \in {"warm", "cool", "neutral"}
    /\ request.args.max_results.k = "int"
    /\ request.args.max_results.v > 0

\* the number of catalog entries that come before entry i when the catalog
\* is ordered by distance to target, equal distances in catalog order
RankOf(i, target) ==
    Cardinality({j \in 1..Len(inkColors) :
        \/ SquaredEuclid(target, inkColors[j].rgb) < SquaredEuclid(target, inkColors[i].rgb)
        \/ /\ SquaredEuclid(target, inkColors[j].rgb) = SquaredEuclid(target, inkColors[i].rgb)
           /\ j < i})

\* the Kelvin estimate of a colour falls in the band of the category
InBand(rgb, category) ==
    CASE category = "warm" -> RLt(calculateColorTemperature(rgb), RInt(3500))
      [] category = "cool" -> RLt(RInt(5000), calculateColorTemperature(rgb))
      [] OTHER -> /\ ~RLt(calculateColorTemperature(rgb), RInt(3500))
                  /\ ~RLt(RInt(5000), calculateColorTemperature(rgb))

\* C29: search_inks_by_color with a temperature filter and a positive
\* max_results N returns at most N inks, all of the requested temperature
\* category, in non-decreasing distance order, and each of them is one of the
\* 2N catalog entries nearest to the target colour.
C29_FilteredWithinTwiceLimit ==
    FilteredSearchAnswered
        => /\ Len(AnswerText.json.results) <= request.args.max_results.v
           /\ AnswerText.json.results_count = Len(AnswerText.json.results)
           /\ \A i \in 1..Len(AnswerText.json.results) :
                /\ InBand(AnswerText.json.results[i].ink.rgb,
                          request.args.temperature_filter)
                /\ i > 1 => AnswerText.json.results[i - 1].distance
                              <= AnswerText.json.results[i].distance
                /\ \E k \in 1..Len(inkColors) :
                     /\ inkColors[k].ink_id = AnswerText.json.results[i].ink.ink_id
                     /\ inkColors[k].rgb = AnswerText.json.results[i].ink.rgb
                     /\ RankOf(k, AnswerText.json.target_rgb)
                          < 2 * request.args.max_results.v

\* C29 witness: the catalog holds an ink of the requested category that is
\* not among the 2N nearest, and fewer than N inks are returned
C29_Witness ==
    /\ FilteredSearchAnswered
    /\ Len(AnswerText.json.results) < request.args.max_results.v
    /\ \E k \in 1..Len(inkColors) :
         /\ InBand(inkColors[k].rgb, request.args.temperature_filter)
         /\ RankOf(k, AnswerText.json.target_rgb) >= 2 * request.args.max_results.v

\* C29 witness: the filter removes a nearer ink and the returned inks are cut
\* to N
C29_WitnessCut ==
    /\ FilteredSearchAnswered
    /\ Len(AnswerText.json.results) = request.args.max_results.v
    /\ \E k \in 1..Len(inkColors) :
         /\ ~InBand(inkColors[k].rgb, request.args.temperature_filter)
         /\ RankOf(k, AnswerText.json.target_rgb) = 0

\* entry e is the first entry of collection coll that has the id
IsFirstWithId(coll, id, e) ==
    \E i \in 1..Len(coll) :
        /\ coll[i] = e
        /\ coll[i].ink_id = id
        /\ \A j \in 1..(i - 1) : coll[j].ink_id # id

\* the metadata of result r is the first metadata entry with the id of its
\* ink, and absent when no metadata entry has that id
MetadataJoined(r) ==
    IF \E i \in 1..Len(inkSearchData) : inkSearchData[i].ink_id = r.ink.ink_id
    THEN IsFirstWithId(inkSearchData, r.ink.ink_id, r.metadata)
    ELSE r.metadata = NoMetadata

\* the results of the answer hold n entries, each with its metadata joined
JoinedResults(results, n) ==
    /\ Len(results) = n
    /\ \A i \in 1..Len(results) : MetadataJoined(results[i])

\* the catalog entry behind result r, without the distance the search adds
CatalogEntryOf(r) ==
    [fullname |-> r.ink.fullname, ink_id |-> r.ink.ink_id, rgb |-> r.ink.rgb]

\* the catalog holds an entry with this id
InCatalog(id) == \E i \in 1..Len(inkColors) : inkColors[i].ink_id = id

\* C23: an entry whose id has no metadata is still returned, with its metadata
\* absent and without an error: analyze_color and an unfiltered
\* search_inks_by_color return the nearest entries of the catalog whatever
\* their metadata, get_ink_details answers for every id the catalog holds,
\* and every palette ink carries its joined metadata; when several catalog or
\* metadata entries share an id, the first one in collection order is used.
C23_MissingMetadataAndFirstMatch ==
    /\ (Answered("analyze_color") /\ response.ok /\ ~IsShortHex(request.args.color))
         => /\ IsPaletteAnswer
            /\ JoinedResults(AnswerText.json.closest_inks,
                             MinOf3(AnalyzeClosest, Len(inkColors), Len(inkColors)))
    /\ (Answered("search_inks_by_color") /\ ~IsShortHex(request.args.color)
          /\ request.args.temperature_filter = Undefined)
         => /\ IsPaletteAnswer
            /\ JoinedResults(AnswerText.json.results,
                  IF request.args.max_results = UndefinedNum
                  THEN MinOf3(DefaultSearchResults, Len(inkColors), Len(inkColors))
                  ELSE MinOf3(request.args.max_results.v, Len(inkColors), Len(inkColors)))
    /\ (Answered("get_ink_details") /\ InCatalog(request.args.ink_id))
         => /\ IsPaletteAnswer
            /\ MetadataJoined(AnswerText.json.ink_details)
            /\ IsFirstWithId(inkColors, request.args.ink_id,
                             CatalogEntryOf(AnswerText.json.ink_details))
    /\ (Answered("get_color_palette") /\ IsPaletteAnswer)
         => \A i \in 1..Len(PaletteInks) : MetadataJoined(PaletteInks[i])

\* C23 witness: get_ink_details for an id two catalog entries of different
\* colours share and no metadata entry has
C23_Witness ==
    /\ Answered("get_ink_details")
    /\ IsPaletteAnswer
    /\ Len(inkColors) = 2
    /\ inkColors[1].ink_id = request.args.ink_id
    /\ inkColors[2].ink_id = request.args.ink_id
    /\ inkColors[1].rgb # inkColors[2].rgb
    /\ AnswerText.json.ink_details.metadata = NoMetadata

\* C23 witness: a palette ink whose id has two metadata entries next to a
\* palette ink without metadata
C23_WitnessPalette ==
    /\ Answered("get_color_palette")
    /\ IsPaletteAnswer
    /\ \E i, j \in 1..Len(PaletteInks) :
         /\ PaletteInks[i].metadata = NoMetadata
         /\ PaletteInks[j].metadata = inkSearchData[1]
         /\ inkSearchData[3].ink_id = PaletteInks[j].ink.ink_id

\* C23 witness: a search result without metadata
C23_WitnessSearch ==
    /\ Answered("search_inks_by_color")
    /\ IsPaletteAnswer
    /\ \E i \in 1..Len(AnswerText.json.results) :
         AnswerText.json.results[i].metadata = NoMetadata

C21_WitnessFailing ==
    /\ Answered("get_color_palette")
    /\ IsErrorAnswer
    /\ Len(inkColors) = 2
    /\ inkColors[1].rgb # inkColors[2].rgb

\* the ink file can be read and every stored entry has a channel triplet
InkFileLoads ==
    /\ process.files.inkColors.readable
    /\ \A i \in 1..Len(process.files.inkColors.data) :
          process.files.inkColors.data[i].rgb # NoTriplet

\* entry ink is the stored entry raw with its channels in reverse order
IsReversedOnce(ink, raw) ==
    /\ ink.ink_id = raw.ink_id
    /\ ink.fullname = raw.fullname
    /\ ink.rgb[1] = raw.rgb[3]
    /\ ink.rgb[2] = raw.rgb[2]
    /\ ink.rgb[3] = raw.rgb[1]

\* the catalog is the stored one with every triplet reversed once, or empty
\* when the ink file did not load
CatalogIsFinal ==
    IF InkFileLoads
    THEN /\ Len(inkColors) = Len(process.files.inkColors.data)
         /\ \A i \in 1..Len(inkColors) :
               IsReversedOnce(inkColors[i], process.files.inkColors.data[i])
    ELSE inkColors = <<>>

\* the metadata collection is the stored one, or empty when a file before
\* it or the metadata file itself did not load
MetadataIsFinal ==
    IF InkFileLoads /\ process.files.search.readable
    THEN inkSearchData = process.files.search.data /\ fuse # NoFuse
    ELSE inkSearchData = <<>> /\ fuse = NoFuse

\* the error of a failed load has been logged
FailureLogged ==
    \E i \in 1..Len(process.log) : process.log[i] = "Error loading ink data:"

\* C30: a call is handled only after the transport is connected, which is
\* after the constructor and its loading have ended; from then on the catalog
\* is the stored catalog with every channel triplet reversed exactly once (or
\* what was loaded before the load failed), every colour a search returns is
\* such a reversed triplet, a failed load has been logged, and every call
\* that carries arguments is answered.
C30_CallsSeeLoadedCatalog ==
    /\ response # NoResponse => process.pc = "connected"
    /\ process.pc \in {"constructed", "connected"}
         => /\ CatalogIsFinal
            /\ MetadataIsFinal
            /\ FailureLogged <=> ~(InkFileLoads /\ process.files.search.readable)
    /\ response # NoResponse => response.ok
    /\ (Answered("search_inks_by_color") /\ IsPaletteAnswer)
         => /\ Len(AnswerText.json.results)
                 = (IF request.args.max_results = UndefinedNum
                    THEN MinOf3(DefaultSearchResults, Len(inkColors), Len(inkColors))
                    ELSE MinOf3(request.args.max_results.v, Len(inkColors),
                                Len(inkColors)))
            /\ \A i \in 1..Len(AnswerText.json.results) :
                 \E k \in 1..Len(process.files.inkColors.data) :
                    IsReversedOnce(AnswerText.json.results[i].ink,
                                   process.files.inkColors.data[k])

\* C30 witness: a search answered from a loaded catalog whose stored triplet
\* differs from its reverse
C30_Witness ==
    /\ Answered("search_inks_by_color")
    /\ IsPaletteAnswer
    /\ InkFileLoads
    /\ Len(AnswerText.json.results) = 2
    /\ process.files.inkColors.data[1].rgb = <<0, 165, 255>>
    /\ inkColors[1].rgb = <<255, 165, 0>>

\* C30 witness: the metadata file fails to load after the catalog has been
\* loaded; the failure is logged and a search is answered from the catalog
C30_WitnessFailedLoad ==
    /\ Answered("search_inks_by_color")
    /\ IsPaletteAnswer
    /\ InkFileLoads
    /\ ~process.files.search.readable
    /\ FailureLogged
    /\ Len(AnswerText.json.results) > 0

\* C30 witness: after a failed load a search by name is answered with the
\* text of the error that the missing index raises
C30_WitnessNoIndex ==
    /\ Answered("search_inks_by_name")
    /\ IsErrorAnswer
    /\ fuse = NoFuse
    /\ FailureLogged

\* call c has been answered or rejected
Finished(c) == response[c] # NoResponse /\ "awaiting" \notin DOMAIN response[c]

C22_WitnessInterleaved ==
    /\ "awaiting" \in DOMAIN response[1]
    /\ request[1].name = "get_color_palette"
    /\ Finished(2)
    /\ response[2].ok
    /\ "error" \in DOMAIN response[2].val.content[1].text

=============================================================================
